---- MODULE Spec2Model ----
(***************************************************************************)
(* Profile/job matching subsystem of the job-tracker backend               *)
(* (backend/services/matcher.py) and the route handlers that call it.      *)
(*                                                                         *)
(* Python values are tagged records; a dict is a function from key strings *)
(* to Python values, an absent key is a key outside DOMAIN.  A text is a   *)
(* sequence of one-character strings.  A list of floats is a "vec":        *)
(* component i is (num[i] / den) * 2^(600 * mag[i]) with mag[i] in         *)
(* {-1, 0, 1}, a tiny, an ordinary or a huge double.  Ordinary arithmetic  *)
(* is exact rational arithmetic; a product of two huge doubles overflows   *)
(* to inf, a product of two tiny ones underflows to 0, and a sum absorbs   *)
(* every term of a lower magnitude, as IEEE-754 doubles do.  A match score *)
(* is kept in hundredths (round(score, 2) * 100), an experience value in   *)
(* tenths.                                                                 *)
(***************************************************************************)
EXTENDS Integers, Sequences, FiniteSets, TLC

VARIABLES
  enc_text,     \* encoder caller: the text under test
  enc_first,    \* encoder caller: order and result of the first call on enc_text
  enc_last,     \* encoder caller: order and result of the latest call on enc_text
  ncalls,       \* encoder caller: number of matcher calls made so far
  sc_profile,   \* scorer caller: first argument of calculate_match_score
  sc_job,       \* scorer caller: second argument
  sc_called,    \* scorer caller: whether the call has returned
  sc_score,     \* scorer caller: the returned score, in hundredths
  rk_profile,   \* ranker caller: its profile record
  rk_jobs,      \* ranker caller: its job list
  rk_min_score, \* ranker caller: min_score, in hundredths
  rk_top_n,     \* ranker caller: top_n
  rk_passed,    \* ranker caller: profile and job list as they were when passed
  rk_ret,       \* ranker caller: what find_matching_jobs returned
  stored_user,  \* user store: the user's document in the users collection
  requests,     \* user store: number of requests handled, also the clock
  last_request, \* user store: what the latest request was and did
  gp_profile,   \* skill-gap caller: its profile record
  gp_job,       \* skill-gap caller: its job record
  gp_passed,    \* skill-gap caller: profile and job as they were when passed
  gp_ret,       \* skill-gap caller: what analyze_skill_gap returned
  mc_profile,   \* matcher caller: its profile record
  mc_jobs,      \* matcher caller: its job list
  mc_passed,    \* matcher caller: profile and job list as they were when passed
  mc_ret,       \* matcher caller: the matcher operation called and what it returned
  jobs_collection,         \* job store: the documents of the jobs collection
  applications_collection, \* application store: the user's applications
  last_response,           \* job and application stores: the latest handler's answer
  searches,                \* job store: the search_jobs requests in progress, by request
  pending,                 \* user store: the profile requests in progress, by request
  db_module                \* config/database.py: its module globals and its caller's view

encVars == <<enc_text, enc_first, enc_last, ncalls>>
scVars == <<sc_profile, sc_job, sc_called, sc_score>>
rkVars == <<rk_profile, rk_jobs, rk_min_score, rk_top_n, rk_passed, rk_ret>>
usVars == <<stored_user, requests, last_request>>
gpVars == <<gp_profile, gp_job, gp_passed, gp_ret>>
mcVars == <<mc_profile, mc_jobs, mc_passed, mc_ret>>
jbVars == <<jobs_collection, applications_collection, last_response>>
cvVars == <<searches, pending, db_module>>
restVars == <<gpVars, mcVars, jbVars, cvVars>>
vars == <<encVars, scVars, rkVars, usVars, restVars>>

(***************************** bounds ***************************************)
MaxTextLen == 4    \* longest free text handed to the encoder
MaxCalls == 3      \* matcher calls per encoder-caller run
MaxVecLen == 3     \* longest vector handed to the scorer directly
MaxJobs == 3       \* longest list of job records handed to the ranker
MaxAnyJobs == 2    \* longest list of arbitrary elements handed to the ranker
MaxRequests == 3   \* most requests made for the user
MaxSkills == 3     \* longest skill list of a profile or a job handed to the skill-gap analyzer
MaxStoredJobs == 3     \* requests to the jobs handlers are made while fewer jobs are stored
MaxApplications == 2   \* most applications created
MaxDbCalls == 5     \* calls of the database module's functions
MaxPending == 2     \* profile requests of one user in progress at once
MaxSearches == 2       \* search_jobs requests in progress together
MaxBatch == 2      \* longest list handed to batch_create_job_embeddings by the matcher caller

(************************* Python values ************************************)
\* Each kind of value has field names of its own, so that two values of
\* different kinds compare unequal whatever their contents.
PyNone == [tag |-> "none"]
PyStr(s) == [tag |-> "str", chars |-> s]
PyInt(n) == [tag |-> "int", int |-> n]
PyFloat(tenths) == [tag |-> "float", tenths |-> tenths]
PyScore(hundredths) == [tag |-> "score", hundredths |-> hundredths]
PyList(items) == [tag |-> "list", items |-> items]
PyDict(d) == [tag |-> "dict", dict |-> d]

Min(a, b) == IF a < b THEN a ELSE b
Max(a, b) == IF a > b THEN a ELSE b

RECURSIVE GCD(_, _)
GCD(a, b) == IF b = 0 THEN a ELSE GCD(b, a % b)

\* sum(s[lo..hi]) and the gcd of g with s[lo..hi], by halving the range.
RECURSIVE SumRange(_, _, _)
SumRange(s, lo, hi) ==
  IF lo > hi THEN 0
  ELSE IF lo = hi THEN s[lo]
  ELSE LET mid == (lo + hi) \div 2
       IN  SumRange(s, lo, mid) + SumRange(s, mid + 1, hi)
Sum(s) == SumRange(s, 1, Len(s))

RECURSIVE GCDRange(_, _, _)
GCDRange(s, lo, hi) ==
  IF lo > hi THEN 0
  ELSE IF lo = hi THEN s[lo]
  ELSE LET mid == (lo + hi) \div 2
       IN  GCD(GCDRange(s, lo, mid), GCDRange(s, mid + 1, hi))

\* A list of ordinary floats: component i is num[i] / den, in lowest terms.
PyVec(nums, den) ==
  LET g == GCD(den, GCDRange(nums, 1, Len(nums)))
  IN  [tag |-> "vec", num |-> [i \in 1..Len(nums) |-> nums[i] \div g], den |-> den \div g,
       mag |-> [i \in 1..Len(nums) |-> 0]]

\* A list of floats with tiny (mag -1) and huge (mag 1) components.
PyVecMag(nums, mag) == [tag |-> "vec", num |-> nums, den |-> 1, mag |-> mag]

\* Python truthiness: `if x`, `not x`.
Truthy(x) ==
  CASE x.tag = "none" -> FALSE
    [] x.tag = "str" -> x.chars # <<>>
    [] x.tag = "int" -> x.int # 0
    [] x.tag = "float" -> x.tenths # 0
    [] x.tag = "score" -> x.hundredths # 0
    [] x.tag = "list" -> x.items # <<>>
    [] x.tag = "vec" -> Len(x.num) > 0
    [] x.tag = "dict" -> DOMAIN x.dict # {}

\* dict.get(key): None for an absent key.
Get(d, key) == IF key \in DOMAIN d THEN d[key] ELSE PyNone

(****************************** text ****************************************)
Whitespace == {" ", "\t", "\n"}

ToLower ==
  ("A" :> "a") @@ ("C" :> "c") @@ ("E" :> "e") @@ ("L" :> "l") @@ ("N" :> "n") @@
  ("R" :> "r") @@ ("S" :> "s") @@ ("T" :> "t")

\* str.lower(); the variant leaves the text as typed.
lowerAsTyped(text) == text
lower(text) ==
  [i \in 1..Len(text) |-> IF text[i] \in DOMAIN ToLower THEN ToLower[text[i]] ELSE text[i]]

\* The members of a set of positions, in increasing order.
Ascending(S) ==
  [k \in 1..Cardinality(S) |-> CHOOSE i \in S : Cardinality({j \in S : j <= i}) = k]

\* str.split(): maximal runs of non-whitespace characters.
split(text) ==
  LET n == Len(text)
      first == Ascending({i \in 1..n : text[i] \notin Whitespace
                                        /\ (i = 1 \/ text[i - 1] \in Whitespace)})
      last == Ascending({i \in 1..n : text[i] \notin Whitespace
                                       /\ (i = n \/ text[i + 1] \in Whitespace)})
  IN  [k \in 1..Len(first) |-> SubSeq(text, first[k], last[k])]

(* int(hashlib.md5(word.encode()).hexdigest(), 16), its low 16 bits, for every *)
(* token the bounded inputs can produce.                                       *)
md5_low16 ==
  (<<"3">> :> 47859) @@
  (<<"C">> :> 4695) @@
  (<<"L">> :> 9607) @@
  (<<"c">> :> 24371) @@
  (<<"l">> :> 15155) @@
  (<<"m">> :> 20507) @@
  (<<"|">> :> 47431) @@
  (<<"4", "-">> :> 20934) @@
  (<<"C", "C">> :> 41676) @@
  (<<"C", "l">> :> 28890) @@
  (<<"L", "L">> :> 48338) @@
  (<<"L", "c">> :> 26207) @@
  (<<"c", ",">> :> 49323) @@
  (<<"c", "L">> :> 1838) @@
  (<<"c", "c">> :> 11388) @@
  (<<"c", "l">> :> 8754) @@
  (<<"i", "n">> :> 10975) @@
  (<<"l", ",">> :> 61439) @@
  (<<"l", "C">> :> 41452) @@
  (<<"l", "c">> :> 4032) @@
  (<<"l", "l">> :> 52556) @@
  (<<"1", ".", "0">> :> 13362) @@
  (<<"2", ".", "0">> :> 27844) @@
  (<<"3", ".", "5">> :> 36466) @@
  (<<"C", "C", "C">> :> 26286) @@
  (<<"C", "C", "l">> :> 235) @@
  (<<"C", "l", "C">> :> 40517) @@
  (<<"C", "l", "l">> :> 7791) @@
  (<<"L", "L", "L">> :> 52405) @@
  (<<"L", "L", "c">> :> 64056) @@
  (<<"L", "c", "L">> :> 29492) @@
  (<<"L", "c", "c">> :> 35259) @@
  (<<"c", "L", "L">> :> 15741) @@
  (<<"c", "L", "c">> :> 34682) @@
  (<<"c", "c", ",">> :> 3531) @@
  (<<"c", "c", "L">> :> 7292) @@
  (<<"c", "c", "c">> :> 34169) @@
  (<<"c", "c", "l">> :> 18200) @@
  (<<"c", "l", ",">> :> 17015) @@
  (<<"c", "l", "c">> :> 29665) @@
  (<<"c", "l", "l">> :> 11064) @@
  (<<"l", "C", "C">> :> 48019) @@
  (<<"l", "C", "l">> :> 34365) @@
  (<<"l", "c", ",">> :> 62739) @@
  (<<"l", "c", "c">> :> 52694) @@
  (<<"l", "c", "l">> :> 27065) @@
  (<<"l", "l", ",">> :> 3501) @@
  (<<"l", "l", "C">> :> 5962) @@
  (<<"l", "l", "c">> :> 52446) @@
  (<<"l", "l", "l">> :> 39497) @@
  (<<"C", "C", "C", "C">> :> 48322) @@
  (<<"C", "C", "C", "l">> :> 48502) @@
  (<<"C", "C", "l", "C">> :> 4635) @@
  (<<"C", "C", "l", "l">> :> 58762) @@
  (<<"C", "l", "C", "C">> :> 19365) @@
  (<<"C", "l", "C", "l">> :> 51235) @@
  (<<"C", "l", "l", "C">> :> 39326) @@
  (<<"C", "l", "l", "l">> :> 51312) @@
  (<<"L", "L", "L", "L">> :> 37753) @@
  (<<"L", "L", "L", "c">> :> 14656) @@
  (<<"L", "L", "c", "L">> :> 424) @@
  (<<"L", "L", "c", "c">> :> 60498) @@
  (<<"L", "c", "L", "L">> :> 56271) @@
  (<<"L", "c", "L", "c">> :> 57109) @@
  (<<"L", "c", "c", "L">> :> 25278) @@
  (<<"L", "c", "c", "c">> :> 5962) @@
  (<<"c", "L", "L", "L">> :> 56002) @@
  (<<"c", "L", "L", "c">> :> 2375) @@
  (<<"c", "L", "c", "L">> :> 36890) @@
  (<<"c", "L", "c", "c">> :> 393) @@
  (<<"c", "c", "L", "L">> :> 29138) @@
  (<<"c", "c", "L", "c">> :> 1309) @@
  (<<"c", "c", "c", "L">> :> 32241) @@
  (<<"c", "c", "c", "c">> :> 30941) @@
  (<<"c", "c", "c", "l">> :> 18984) @@
  (<<"c", "c", "l", "c">> :> 47164) @@
  (<<"c", "c", "l", "l">> :> 61995) @@
  (<<"c", "l", "c", "c">> :> 46266) @@
  (<<"c", "l", "c", "l">> :> 22057) @@
  (<<"c", "l", "l", "c">> :> 50786) @@
  (<<"c", "l", "l", "l">> :> 57699) @@
  (<<"l", "C", "C", "C">> :> 3370) @@
  (<<"l", "C", "C", "l">> :> 25559) @@
  (<<"l", "C", "l", "C">> :> 1881) @@
  (<<"l", "C", "l", "l">> :> 62759) @@
  (<<"l", "c", "c", "c">> :> 27988) @@
  (<<"l", "c", "c", "l">> :> 37887) @@
  (<<"l", "c", "l", "c">> :> 20395) @@
  (<<"l", "c", "l", "l">> :> 46149) @@
  (<<"l", "l", "C", "C">> :> 56362) @@
  (<<"l", "l", "C", "l">> :> 20550) @@
  (<<"l", "l", "c", "c">> :> 7526) @@
  (<<"l", "l", "c", "l">> :> 41825) @@
  (<<"l", "l", "l", "C">> :> 5477) @@
  (<<"l", "l", "l", "c">> :> 17437) @@
  (<<"l", "l", "l", "l">> :> 39266) @@
  (<<"n", "o", "n", "e">> :> 59128) @@
  (<<"C", "C", "C", "C", "C">> :> 22039) @@
  (<<"C", "C", "C", "C", "l">> :> 15733) @@
  (<<"C", "C", "C", "l", "C">> :> 56476) @@
  (<<"C", "C", "C", "l", "l">> :> 36263) @@
  (<<"C", "C", "l", "C", "C">> :> 60763) @@
  (<<"C", "C", "l", "C", "l">> :> 31332) @@
  (<<"C", "C", "l", "l", "C">> :> 56513) @@
  (<<"C", "C", "l", "l", "l">> :> 32986) @@
  (<<"C", "l", "C", "C", "C">> :> 57291) @@
  (<<"C", "l", "C", "C", "l">> :> 7366) @@
  (<<"C", "l", "C", "l", "C">> :> 59923) @@
  (<<"C", "l", "C", "l", "l">> :> 46417) @@
  (<<"C", "l", "l", "C", "C">> :> 22958) @@
  (<<"C", "l", "l", "C", "l">> :> 11736) @@
  (<<"C", "l", "l", "l", "C">> :> 11885) @@
  (<<"C", "l", "l", "l", "l">> :> 54274) @@
  (<<"L", "L", "L", "L", "L">> :> 27065) @@
  (<<"L", "L", "L", "L", "c">> :> 1862) @@
  (<<"L", "L", "L", "c", "L">> :> 55183) @@
  (<<"L", "L", "L", "c", "c">> :> 12791) @@
  (<<"L", "L", "c", "L", "L">> :> 15143) @@
  (<<"L", "L", "c", "L", "c">> :> 64938) @@
  (<<"L", "L", "c", "c", "L">> :> 56116) @@
  (<<"L", "L", "c", "c", "c">> :> 60157) @@
  (<<"L", "c", "L", "L", "L">> :> 11584) @@
  (<<"L", "c", "L", "L", "c">> :> 15190) @@
  (<<"L", "c", "L", "c", "L">> :> 14304) @@
  (<<"L", "c", "L", "c", "c">> :> 57432) @@
  (<<"L", "c", "c", "L", "L">> :> 8705) @@
  (<<"L", "c", "c", "L", "c">> :> 30421) @@
  (<<"L", "c", "c", "c", "L">> :> 33910) @@
  (<<"L", "c", "c", "c", "c">> :> 26220) @@
  (<<"c", "L", "L", "L", "L">> :> 64082) @@
  (<<"c", "L", "L", "L", "c">> :> 26821) @@
  (<<"c", "L", "L", "c", "L">> :> 14906) @@
  (<<"c", "L", "L", "c", "c">> :> 22964) @@
  (<<"c", "L", "c", "L", "L">> :> 4493) @@
  (<<"c", "L", "c", "L", "c">> :> 17436) @@
  (<<"c", "L", "c", "c", "L">> :> 13731) @@
  (<<"c", "L", "c", "c", "c">> :> 36947) @@
  (<<"c", "c", "L", "L", "L">> :> 48111) @@
  (<<"c", "c", "L", "L", "c">> :> 38076) @@
  (<<"c", "c", "L", "c", "L">> :> 29525) @@
  (<<"c", "c", "L", "c", "c">> :> 27292) @@
  (<<"c", "c", "c", "L", "L">> :> 2409) @@
  (<<"c", "c", "c", "L", "c">> :> 24010) @@
  (<<"c", "c", "c", "c", "L">> :> 61856) @@
  (<<"c", "c", "c", "c", "c">> :> 25834) @@
  (<<"c", "c", "c", "c", "l">> :> 64739) @@
  (<<"c", "c", "c", "l", "c">> :> 62359) @@
  (<<"c", "c", "c", "l", "l">> :> 53478) @@
  (<<"c", "c", "l", "c", "c">> :> 38596) @@
  (<<"c", "c", "l", "c", "l">> :> 32192) @@
  (<<"c", "c", "l", "l", "c">> :> 54513) @@
  (<<"c", "c", "l", "l", "l">> :> 30627) @@
  (<<"c", "l", "c", "c", "c">> :> 13203) @@
  (<<"c", "l", "c", "c", "l">> :> 38475) @@
  (<<"c", "l", "c", "l", "c">> :> 14471) @@
  (<<"c", "l", "c", "l", "l">> :> 8661) @@
  (<<"c", "l", "l", "c", "c">> :> 27364) @@
  (<<"c", "l", "l", "c", "l">> :> 4570) @@
  (<<"c", "l", "l", "l", "c">> :> 62413) @@
  (<<"c", "l", "l", "l", "l">> :> 62841) @@
  (<<"l", "C", "C", "C", "C">> :> 31989) @@
  (<<"l", "C", "C", "C", "l">> :> 9823) @@
  (<<"l", "C", "C", "l", "C">> :> 15262) @@
  (<<"l", "C", "C", "l", "l">> :> 43876) @@
  (<<"l", "C", "l", "C", "C">> :> 11949) @@
  (<<"l", "C", "l", "C", "l">> :> 677) @@
  (<<"l", "C", "l", "l", "C">> :> 38869) @@
  (<<"l", "C", "l", "l", "l">> :> 7220) @@
  (<<"l", "c", "c", "c", "c">> :> 62941) @@
  (<<"l", "c", "c", "c", "l">> :> 7505) @@
  (<<"l", "c", "c", "l", "c">> :> 55278) @@
  (<<"l", "c", "c", "l", "l">> :> 28385) @@
  (<<"l", "c", "l", "c", "c">> :> 57600) @@
  (<<"l", "c", "l", "c", "l">> :> 47797) @@
  (<<"l", "c", "l", "l", "c">> :> 36774) @@
  (<<"l", "c", "l", "l", "l">> :> 16409) @@
  (<<"l", "l", "C", "C", "C">> :> 20118) @@
  (<<"l", "l", "C", "C", "l">> :> 41526) @@
  (<<"l", "l", "C", "l", "C">> :> 57809) @@
  (<<"l", "l", "C", "l", "l">> :> 23751) @@
  (<<"l", "l", "c", "c", "c">> :> 7519) @@
  (<<"l", "l", "c", "c", "l">> :> 3086) @@
  (<<"l", "l", "c", "l", "c">> :> 16373) @@
  (<<"l", "l", "c", "l", "l">> :> 21900) @@
  (<<"l", "l", "l", "C", "C">> :> 13614) @@
  (<<"l", "l", "l", "C", "l">> :> 9075) @@
  (<<"l", "l", "l", "c", "c">> :> 61825) @@
  (<<"l", "l", "l", "c", "l">> :> 6604) @@
  (<<"l", "l", "l", "l", "C">> :> 57345) @@
  (<<"l", "l", "l", "l", "c">> :> 10627) @@
  (<<"l", "l", "l", "l", "l">> :> 37552) @@
  (<<"y", "e", "a", "r", "s">> :> 5871) @@
  (<<"4", "-", "n", "o", "n", "e">> :> 58238) @@
  (<<"n", "o", "n", "e", "-", "3">> :> 31351) @@
  (<<"r", "o", "l", "e", "s", ":">> :> 30045) @@
  (<<"t", "a", "r", "g", "e", "t">> :> 26782) @@
  (<<"t", "i", "t", "l", "e", ":">> :> 19427) @@
  (<<"s", "k", "i", "l", "l", "s", ":">> :> 24241) @@
  (<<"c", "o", "m", "p", "a", "n", "y", ":">> :> 38776) @@
  (<<"r", "e", "q", "u", "i", "r", "e", "d">> :> 42117) @@
  (<<"l", "o", "c", "a", "t", "i", "o", "n", ":">> :> 26714) @@
  (<<"e", "d", "u", "c", "a", "t", "i", "o", "n", ":">> :> 46806) @@
  (<<"e", "x", "p", "e", "r", "i", "e", "n", "c", "e", ":">> :> 56630)

(***************************** encoder **************************************)
EmbeddingDim == 128

ZeroEmbedding == [i \in 1..EmbeddingDim |-> 0]

\* set(words)
WordSet(words) == {words[i] : i \in 1..Len(words)}

\* Every order in which `for word in set(words)` can visit the distinct words:
\* it depends on the interpreter's string-hash seed, which the code does not fix.
IterationOrders(S) ==
  {o \in [1..Cardinality(S) -> S] : \A i, j \in 1..Cardinality(S) : i # j => o[i] # o[j]}

\* One of those orders, for callers that do not enumerate them.
RECURSIVE IterationOrder(_)
IterationOrder(S) ==
  IF S = {} THEN <<>>
  ELSE LET w == CHOOSE x \in S : TRUE IN <<w>> \o IterationOrder(S \ {w})

\* The numerator the k-th visited word adds to its bucket, in units of
\* 1.0 / max(1, len(words)).
IncrementByPosition(k) == k
Increment(k) == 1

\* The loop over set(words): hash each word into a bucket and add to it.
RECURSIVE Accumulate(_, _, _)
Accumulate(order, k, embedding) ==
  IF k > Len(order)
  THEN embedding
  ELSE LET hash_val == md5_low16[order[k]]
           idx == hash_val % EmbeddingDim
       IN  Accumulate(order, k + 1, [embedding EXCEPT ![idx + 1] = @ + Increment(k)])

\* total = sum(embedding); if total > 0: embedding = [x / total for x in embedding].
\* embedding holds numerators over `unit`; x / total = (x/unit) / (total/unit).
NormalizeSkipped(embedding, unit) == PyVec(embedding, unit)
Normalize(embedding, unit) ==
  LET total == Sum(embedding)
  IN  IF total > 0
      THEN PyVec([i \in 1..Len(embedding) |-> embedding[i] * unit], unit * total)
      ELSE PyVec(embedding, unit)

\* max(1, len(words)): what each visited word adds is 1.0 over it.  The
\* variant counts the distinct words only.
TokenUnitDistinct(words) == Max(1, Cardinality(WordSet(words)))
TokenUnit(words) == Max(1, Len(words))

\* The embedding list when the loop has ended, before it is normalized:
\* numerators over TokenUnit(words).
buckets_in_order(order) == Accumulate(order, 1, ZeroEmbedding)

\* _simple_embedding with the visiting order of set(words) made explicit.
embedding_in_order(text, order) ==
  Normalize(buckets_in_order(order), TokenUnit(split(lower(text))))

_simple_embedding(text) ==
  embedding_in_order(text, IterationOrder(WordSet(split(lower(text)))))

(********************** profile and job encoders ****************************)
DigitChars == <<"0", "1", "2", "3", "4", "5", "6", "7", "8", "9">>

\* str(n) for a natural number n.
RECURSIVE FormatNat(_)
FormatNat(n) ==
  IF n < 10 THEN <<DigitChars[n + 1]>>
  ELSE FormatNat(n \div 10) \o <<DigitChars[(n % 10) + 1]>>

\* f"{x}": a str as it is, an int in decimal, a float with one decimal
\* (2.0 prints "2.0"), None as "None".
Format(x) ==
  CASE x.tag = "str" -> x.chars
    [] x.tag = "int" -> FormatNat(x.int)
    [] x.tag = "float" -> FormatNat(x.tenths \div 10) \o <<".">> \o FormatNat(x.tenths % 10)
    [] x.tag = "none" -> <<"N", "o", "n", "e">>

\* Whether sep.join(x) succeeds: x is a list of str, or a str (its characters).
Joinable(x) ==
  \/ x.tag = "str"
  \/ x.tag = "list" /\ \A i \in 1..Len(x.items) : x.items[i].tag = "str"

\* The texts sep.join(x) joins.
JoinItems(x) ==
  IF x.tag = "str" THEN [i \in 1..Len(x.chars) |-> <<x.chars[i]>>]
  ELSE [i \in 1..Len(x.items) |-> x.items[i].chars]

RECURSIVE JoinFrom(_, _, _)
JoinFrom(sep, texts, i) ==
  IF i > Len(texts) THEN <<>>
  ELSE IF i = Len(texts) THEN texts[i]
  ELSE texts[i] \o sep \o JoinFrom(sep, texts, i + 1)
Join(sep, texts) == JoinFrom(sep, texts, 1)

\* text[:n]
Prefix(text, n) == SubSeq(text, 1, Min(Len(text), n))

\* dict.get(key, default)
GetDefault(d, key, default) == IF key \in DOMAIN d THEN d[key] ELSE default

ResumeSnippetLen == 500
DescriptionSnippetLen == 500
RequirementsSnippetLen == 300

\* One `if record.get(key): parts.append(...)` step of an encoder: the parts
\* so far, and whether the step raised.
Parts(parts) == [raised |-> FALSE, parts |-> parts]
Raised == [raised |-> TRUE, parts |-> <<>>]

\* "<label>" + ", ".join(d[key]) when d.get(key) is truthy.
JoinedPart(acc, d, key, label) ==
  IF acc.raised \/ ~Truthy(Get(d, key)) THEN acc
  ELSE IF Joinable(d[key])
       THEN Parts(Append(acc.parts, label \o Join(<<",", " ">>, JoinItems(d[key]))))
       ELSE Raised

\* f"<label>{d[key]}<suffix>" when d.get(key) is truthy.
FormattedPart(acc, d, key, label, suffix) ==
  IF acc.raised \/ ~Truthy(Get(d, key)) THEN acc
  ELSE Parts(Append(acc.parts, label \o Format(d[key]) \o suffix))

\* d[key][:n] when d.get(key) is truthy; a value that is no str either cannot
\* be sliced or makes the final join raise.
SnippetPartWhole(acc, d, key, n) ==
  IF acc.raised \/ ~Truthy(Get(d, key)) THEN acc
  ELSE IF d[key].tag = "str" THEN Parts(Append(acc.parts, d[key].chars)) ELSE Raised
SnippetPart(acc, d, key, n) ==
  IF acc.raised \/ ~Truthy(Get(d, key)) THEN acc
  ELSE IF d[key].tag = "str"
       THEN Parts(Append(acc.parts, Prefix(d[key].chars, n)))
       ELSE Raised

\* f"Education: {edu.get('degree', '')} in {edu.get('field', '')}" when the
\* education value is a non-empty dict.
EducationPart(acc, d) ==
  IF acc.raised \/ ~Truthy(Get(d, "education")) THEN acc
  ELSE IF d["education"].tag = "dict"
       THEN LET edu == d["education"].dict
            IN  Parts(Append(acc.parts,
                  <<"E", "d", "u", "c", "a", "t", "i", "o", "n", ":", " ">> \o Format(GetDefault(edu, "degree", PyStr(<<>>)))
                  \o <<" ", "i", "n", " ">> \o Format(GetDefault(edu, "field", PyStr(<<>>)))))
       ELSE acc

\* f"Experience: {exp_min}-{exp_max} years" when either bound is truthy.
ExperienceRangePart(acc, d) ==
  IF acc.raised \/ ~(Truthy(Get(d, "experience_min")) \/ Truthy(Get(d, "experience_max")))
  THEN acc
  ELSE LET exp_min == GetDefault(d, "experience_min", PyInt(0))
           exp_max == GetDefault(d, "experience_max", PyStr(<<>>))
       IN  Parts(Append(acc.parts,
             <<"E", "x", "p", "e", "r", "i", "e", "n", "c", "e", ":", " ">> \o Format(exp_min) \o <<"-">> \o Format(exp_max) \o <<" ", "y", "e", "a", "r", "s">>))

\* except Exception: every fault of an encoder's try body is caught.
EncoderCaughtNever(raised) == FALSE
EncoderCaught(raised) == raised

\* What an encoder leaves behind once its text is built or has raised: whether
\* it raised to its caller, the text it passed to _simple_embedding, and the
\* vector returned ([0.0] * 128 from the except clause).
EmbeddingOutcome(t) ==
  [raised |-> t.raised /\ ~EncoderCaught(TRUE),
   text |-> t.text,
   embedding |-> IF t.raised THEN PyVec(ZeroEmbedding, 1) ELSE _simple_embedding(t.text)]

\* The text create_profile_embedding encodes, or raised.
profile_text(user_profile) ==
  IF user_profile.tag # "dict" THEN [raised |-> TRUE, text |-> <<>>]
  ELSE LET d == user_profile.dict
           p1 == JoinedPart(Parts(<<>>), d, "skills", <<"S", "k", "i", "l", "l", "s", ":", " ">>)
           p2 == FormattedPart(p1, d, "experience_years", <<"E", "x", "p", "e", "r", "i", "e", "n", "c", "e", ":", " ">>, <<" ", "y", "e", "a", "r", "s">>)
           p3 == JoinedPart(p2, d, "target_roles", <<"T", "a", "r", "g", "e", "t", " ", "r", "o", "l", "e", "s", ":", " ">>)
           p4 == EducationPart(p3, d)
           p5 == SnippetPart(p4, d, "resume_text", ResumeSnippetLen)
       IN  [raised |-> p5.raised, text |-> Join(<<" ", "|", " ">>, p5.parts)]

\* except Exception: return [0.0] * 128
create_profile_embedding(user_profile) == EmbeddingOutcome(profile_text(user_profile)).embedding

\* The text create_job_embedding encodes, or raised.
job_text(job_posting) ==
  IF job_posting.tag # "dict" THEN [raised |-> TRUE, text |-> <<>>]
  ELSE LET d == job_posting.dict
           p1 == FormattedPart(Parts(<<>>), d, "title", <<"T", "i", "t", "l", "e", ":", " ">>, <<>>)
           p2 == FormattedPart(p1, d, "company", <<"C", "o", "m", "p", "a", "n", "y", ":", " ">>, <<>>)
           p3 == FormattedPart(p2, d, "location", <<"L", "o", "c", "a", "t", "i", "o", "n", ":", " ">>, <<>>)
           p4 == JoinedPart(p3, d, "skills_required", <<"R", "e", "q", "u", "i", "r", "e", "d", " ", "s", "k", "i", "l", "l", "s", ":", " ">>)
           p5 == ExperienceRangePart(p4, d)
           p6 == SnippetPart(p5, d, "description", DescriptionSnippetLen)
           p7 == SnippetPart(p6, d, "requirements", RequirementsSnippetLen)
       IN  [raised |-> p7.raised, text |-> Join(<<" ", "|", " ">>, p7.parts)]

create_job_embedding(job_posting) == EmbeddingOutcome(job_text(job_posting)).embedding

(******************************* scorer *************************************)
\* A double met in the scorer's sums and products: zero, tiny (n * 2^-600),
\* fin (n), huge (n * 2^600), inf or nan; n is a numerator over the product of
\* the two vecs' common denominators, which cancels in dot / denom.
FZero == [kind |-> "zero", n |-> 0]
FInf == [kind |-> "inf", n |-> 0]
FNaN == [kind |-> "nan", n |-> 0]
FTiny(n) == [kind |-> "tiny", n |-> n]
FFin(n) == [kind |-> "fin", n |-> n]
FHuge(n) == [kind |-> "huge", n |-> n]

KindRank(kind) ==
  CASE kind = "zero" -> 0 [] kind = "tiny" -> 1 [] kind = "fin" -> 2
    [] kind = "huge" -> 3 [] kind = "inf" -> 4

\* a + b on non-negative doubles: the larger magnitude absorbs the smaller.
FAdd(a, b) ==
  IF KindRank(a.kind) > KindRank(b.kind) THEN a
  ELSE IF KindRank(a.kind) < KindRank(b.kind) THEN b
  ELSE [kind |-> a.kind, n |-> a.n + b.n]

\* p[i] * j[i]: two huge factors overflow to inf, two tiny ones underflow to 0.
Product(p, j, i) ==
  IF p.num[i] = 0 \/ j.num[i] = 0
  THEN FZero
  ELSE LET m == p.mag[i] + j.mag[i]
           n == p.num[i] * j.num[i]
       IN  CASE m = 2 -> FInf
             [] m = 1 -> FHuge(n)
             [] m = 0 -> FFin(n)
             [] m = -1 -> FTiny(n)
             [] m = -2 -> FZero

\* sum(p * j for p, j in zip(p[:min_len], j[:min_len])) over components lo..hi.
RECURSIVE SumProducts(_, _, _, _)
SumProducts(p, j, lo, hi) ==
  IF lo > hi THEN FZero
  ELSE IF lo = hi THEN Product(p, j, lo)
  ELSE LET mid == (lo + hi) \div 2
       IN  FAdd(SumProducts(p, j, lo, mid), SumProducts(p, j, mid + 1, hi))

\* profile_norm * job_norm, both kept squared (n is the square of the product):
\* 0 * inf is nan.
NormProduct(a, b) ==
  CASE a.kind = "zero" /\ b.kind = "inf" -> FNaN
    [] a.kind = "inf" /\ b.kind = "zero" -> FNaN
    [] a.kind = "zero" /\ b.kind # "inf" -> FZero
    [] a.kind # "inf" /\ b.kind = "zero" -> FZero
    [] a.kind = "inf" /\ b.kind # "zero" -> FInf
    [] a.kind = "fin" /\ b.kind = "inf" -> FInf
    [] a.kind = "fin" /\ b.kind = "fin" -> FFin(a.n * b.n)

\* m * m * ab <= (20000 * dot)^2 and m * m * ab = (20000 * dot)^2, computed in
\* limbs of 10^4 so that no intermediate value leaves 32 bits.
ScaledLeq(m, ab, dot) ==
  LET x == m * m
      y == (x \div 10000) * ab + ((x % 10000) * ab) \div 10000
      r == ((x % 10000) * ab) % 10000
  IN  y < 4 * dot * dot * 10000 \/ (y = 4 * dot * dot * 10000 /\ r = 0)
ScaledEq(m, ab, dot) ==
  LET x == m * m
      y == (x \div 10000) * ab + ((x % 10000) * ab) \div 10000
      r == ((x % 10000) * ab) % 10000
  IN  y = 4 * dot * dot * 10000 /\ r = 0

\* The largest m in lo..hi with m <= 2 * 10000 * dot / sqrt(ab).
RECURSIVE LargestM(_, _, _, _)
LargestM(lo, hi, ab, dot) ==
  IF lo = hi THEN lo
  ELSE LET mid == (lo + hi + 1) \div 2
       IN  IF ScaledLeq(mid, ab, dot)
           THEN LargestM(mid, hi, ab, dot)
           ELSE LargestM(lo, mid - 1, ab, dot)

\* score = max(0, min(100, similarity * 100)); round(score, 2), in hundredths,
\* for similarity = dot / sqrt(ab): round-half-even of 10000 * dot / sqrt(ab).
RoundedScore(dot, ab) ==
  IF dot <= 0 THEN 0
  ELSE IF ScaledLeq(20000, ab, dot) THEN 10000
  ELSE LET m == LargestM(0, 19999, ab, dot)
           k == m \div 2
       IN  IF m % 2 = 0 THEN k
           ELSE IF ScaledEq(m, ab, dot) THEN (IF k % 2 = 0 THEN k ELSE k + 1)
           ELSE k + 1

\* The values of the three `return 0.0`: an empty or absent argument, a zero
\* denominator, and the except branch.
MissingScoreSentinel == 0 - 1
MissingScore == 0
ZeroDenomScore == 0
ErrorScore == 0

\* The try body; raised when an argument is truthy but no list of numbers
\* (len(), slicing or the product raises).
match_score_body(profile_embedding, job_embedding) ==
  IF ~Truthy(profile_embedding) \/ ~Truthy(job_embedding)
  THEN [raised |-> FALSE, value |-> MissingScore]
  ELSE IF profile_embedding.tag # "vec" \/ job_embedding.tag # "vec"
  THEN [raised |-> TRUE, value |-> 0]
  ELSE LET min_len == Min(Len(profile_embedding.num), Len(job_embedding.num))
           dot_product == SumProducts(profile_embedding, job_embedding, 1, min_len)
           profile_norm == SumProducts(profile_embedding, profile_embedding, 1, min_len)
           job_norm == SumProducts(job_embedding, job_embedding, 1, min_len)
           denom == NormProduct(profile_norm, job_norm)
       IN  IF denom.kind = "zero"
           THEN [raised |-> FALSE, value |-> ZeroDenomScore]
           ELSE [raised |-> FALSE, value |->
                  CASE denom.kind = "nan" -> 10000      \* min(100, nan) is 100
                    [] denom.kind = "inf" ->
                         IF dot_product.kind = "inf" THEN 10000 ELSE 0
                    [] denom.kind = "fin" ->
                         CASE dot_product.kind = "zero" -> 0
                           [] dot_product.kind = "tiny" -> 0
                           [] dot_product.kind = "fin" ->
                                RoundedScore(dot_product.n, denom.n)
                           [] OTHER -> 10000]

calculate_match_score(profile_embedding, job_embedding) ==
  LET r == match_score_body(profile_embedding, job_embedding)
  IN  IF r.raised THEN ErrorScore ELSE r.value

(******************************* ranker *************************************)
\* profile_embedding = user_profile.get("resume_embedding"), or the encoding
\* computed on the fly; with the caller's profile as the step leaves it.
ObtainProfileEmbedding(user_profile) ==
  LET cached == Get(user_profile.dict, "resume_embedding")
  IN  [record |-> user_profile,
       embedding |-> IF Truthy(cached) THEN cached ELSE create_profile_embedding(user_profile)]

\* job_embedding = job.get("job_embedding"), or the encoding computed on the fly.
ObtainJobEmbedding(job) ==
  LET cached == Get(job.dict, "job_embedding")
  IN  [record |-> job,
       embedding |-> IF Truthy(cached) THEN cached ELSE create_job_embedding(job)]

\* score >= min_score
KeepAboveOnly(score, min_score) == score > min_score
Keep(score, min_score) == score >= min_score

\* job_with_score = job.copy(); job_with_score["match_score"] = score: the
\* caller's job as the step leaves it, and the entry appended to matching_jobs.
WithScore(job, score) ==
  PyDict([k \in DOMAIN job.dict \cup {"match_score"} |->
            IF k = "match_score" THEN PyScore(score) ELSE job.dict[k]])
AttachScoreInPlace(job, score) == [record |-> WithScore(job, score), entry |-> WithScore(job, score)]
AttachScore(job, score) == [record |-> job, entry |-> WithScore(job, score)]

\* The elements `for job in job_postings` visits, or raised (not iterable).
IterItems(job_postings) ==
  CASE job_postings.tag = "list" -> [raised |-> FALSE, items |-> job_postings.items]
    [] job_postings.tag = "str" ->
         [raised |-> FALSE, items |-> [i \in 1..Len(job_postings.chars) |-> PyStr(<<job_postings.chars[i]>>)]]
    [] job_postings.tag \in {"none", "int", "float"} -> [raised |-> TRUE, items |-> <<>>]

\* One iteration once the score is known: the caller's job as the iteration
\* leaves it, and the entry appended to matching_jobs when the job is kept.
KeepOrSkip(job, score, min_score) ==
  IF Keep(score, min_score)
  THEN [kept |-> TRUE] @@ AttachScore(job, score)
  ELSE [kept |-> FALSE, record |-> job, entry |-> PyNone]

\* One iteration of the loop, given the job with its embedding.
ScoreJob(got, profile_embedding, min_score) ==
  KeepOrSkip(got.record, calculate_match_score(profile_embedding, got.embedding), min_score)

\* What the iterations leave behind: the caller's elements, matching_jobs
\* (the kept entries in the order visited), and whether an iteration raised.
Collect(items, step, raised) ==
  LET kept == {i \in DOMAIN step : step[i].kept}
  IN  [items |-> [i \in 1..Len(items) |-> IF i \in DOMAIN step THEN step[i].record ELSE items[i]],
       matching_jobs |-> [k \in 1..Cardinality(kept) |->
                            step[CHOOSE i \in kept : Cardinality({j \in kept : j <= i}) = k].entry],
       raised |-> raised]

\* The number of elements visited before the loop ends: all of them, or
\* those before the first element that is no dict (job.get raises on it).
Visited(items) ==
  LET malformed == {i \in 1..Len(items) : items[i].tag # "dict"}
  IN  IF malformed = {} THEN Len(items)
      ELSE (CHOOSE i \in malformed : \A j \in malformed : i <= j) - 1

\* for job in job_postings: ...
ScoreJobs(iter, profile_embedding, min_score) ==
  Collect(iter.items,
          [i \in 1..Visited(iter.items) |->
             ScoreJob(ObtainJobEmbedding(iter.items[i]), profile_embedding, min_score)],
          iter.raised \/ Visited(iter.items) < Len(iter.items))

\* matching_jobs.sort(key=lambda x: x["match_score"], reverse=True): a stable
\* sort, equal keys keep their order.  Insert x behind every entry whose key
\* is not smaller.
InsertBeforeEqual(sorted, x) ==
  LET n == Cardinality({k \in 1..Len(sorted) :
                          sorted[k].dict["match_score"].hundredths > x.dict["match_score"].hundredths})
  IN  SubSeq(sorted, 1, n) \o <<x>> \o SubSeq(sorted, n + 1, Len(sorted))
InsertSorted(sorted, x) ==
  LET n == Cardinality({k \in 1..Len(sorted) :
                          sorted[k].dict["match_score"].hundredths >= x.dict["match_score"].hundredths})
  IN  SubSeq(sorted, 1, n) \o <<x>> \o SubSeq(sorted, n + 1, Len(sorted))

RECURSIVE SortFrom(_, _, _)
SortFrom(list, i, sorted) ==
  IF i > Len(list) THEN sorted ELSE SortFrom(list, i + 1, InsertSorted(sorted, list[i]))
SortByScoreDescending(list) == SortFrom(list, 1, <<>>)

\* list[:top_n]; a negative top_n counts from the end.
Slice(list, top_n) ==
  IF top_n >= 0 THEN SubSeq(list, 1, Min(Len(list), top_n))
  ELSE SubSeq(list, 1, Max(0, Len(list) + top_n))

\* except Exception: every fault of the try body is caught.
CaughtNever(raised) == FALSE
Caught(raised) == raised

\* What find_matching_jobs leaves behind: whether it raised to its caller, the
\* list it returned, and the caller's profile and job list.
Outcome(raised, result, user_profile, job_postings) ==
  [raised |-> raised, result |-> result, user_profile |-> user_profile, job_postings |-> job_postings]

\* The caller's job list, its elements as the loop left them.
JobsAfter(job_postings, items) ==
  IF job_postings.tag = "list" THEN PyList(items) ELSE job_postings

\* After the loop: sort, slice and return, or the except clause.
SortAndReturn(user_profile, job_postings, loop, top_n) ==
  IF loop.raised
  THEN Outcome(~Caught(TRUE), <<>>, user_profile, JobsAfter(job_postings, loop.items))
  ELSE Outcome(FALSE, Slice(SortByScoreDescending(loop.matching_jobs), top_n),
               user_profile, JobsAfter(job_postings, loop.items))

\* The body of the try block once the profile embedding is at hand.
RankJobsWith(profile, job_postings, min_score, top_n) ==
  SortAndReturn(profile.record, job_postings,
                ScoreJobs(IterItems(job_postings), profile.embedding, min_score), top_n)

find_matching_jobs(user_profile, job_postings, min_score, top_n) ==
  IF user_profile.tag # "dict"
  THEN Outcome(~Caught(TRUE), <<>>, user_profile, job_postings)
  ELSE RankJobsWith(ObtainProfileEmbedding(user_profile), job_postings, min_score, top_n)

(****************************** user store **********************************)
\* {**d, **e}; also the document d after update_one({"$set": e}).
Merge(d, e) ==
  PyDict([k \in DOMAIN d.dict \cup DOMAIN e.dict |->
            IF k \in DOMAIN e.dict THEN e.dict[k] ELSE d.dict[k]])

\* The fields whose presence in an update makes update_user_profile
\* regenerate the embedding.
EmbeddingKeys == {"skills", "experience_years", "target_roles", "resume_text"}

\* profile_for_embedding = {**user, **update_data}
ProfileForEmbeddingStale(user, update_data) == user
ProfileForEmbedding(user, update_data) == Merge(user, update_data)

\* update_data["resume_embedding"] = embedding
SetEmbedding(update_data, embedding) ==
  Merge(update_data, PyDict("resume_embedding" :> embedding))

\* update_user_profile, for a user that exists: the document handed to $set.
\* profile_update holds the fields the request set (dict(exclude_unset=True)).
update_user_profile(user, profile_update, now) ==
  LET update_data == Merge(profile_update, PyDict("updated_at" :> PyInt(now)))
  IN  IF DOMAIN update_data.dict \cap EmbeddingKeys # {}
      THEN SetEmbedding(update_data,
                        create_profile_embedding(ProfileForEmbedding(user, update_data)))
      ELSE update_data

\* str.strip()
strip(text) ==
  LET inked == {i \in 1..Len(text) : text[i] \notin Whitespace}
  IN  IF inked = {} THEN <<>>
      ELSE SubSeq(text, CHOOSE i \in inked : \A j \in inked : i <= j,
                        CHOOSE i \in inked : \A j \in inked : i >= j)

MinResumeLen == 50

\* parse_resume: raises when the stripped text is shorter than 50 characters;
\* what the extractors find in the text comes with the file.
parse_resume(file) ==
  [raised |-> Len(strip(file.text)) < MinResumeLen,
   parsed_data |-> ("resume_text" :> PyStr(file.text)) @@ ("skills" :> file.skills) @@
                   ("education" :> file.education) @@
                   ("experience_years" :> file.experience_years)]

\* upload_resume after parsing, for a user that exists: the document handed
\* to $set.
ResumeUpdate(parsed_data, now) ==
  PyDict(("resume_text" :> GetDefault(parsed_data, "resume_text", PyStr(<<>>))) @@
         ("skills" :> GetDefault(parsed_data, "skills", PyList(<<>>))) @@
         ("experience_years" :> GetDefault(parsed_data, "experience_years", PyInt(0))) @@
         ("education" :> GetDefault(parsed_data, "education", PyDict(<<>>))) @@
         ("updated_at" :> PyInt(now)))

EmbedAndSet(user, update_data) ==
  SetEmbedding(update_data, create_profile_embedding(ProfileForEmbedding(user, update_data)))

upload_resume(user, parsed_data, now) == EmbedAndSet(user, ResumeUpdate(parsed_data, now))

EducationOf(degree, field) ==
  PyDict(("degree" :> degree) @@ ("field" :> field) @@ ("institution" :> PyNone) @@
         ("graduation_year" :> PyNone))

\* User(...).dict() as register_user inserts it.
RegisteredUser ==
  PyDict(("resume_text" :> PyNone) @@ ("resume_embedding" :> PyNone) @@
         ("skills" :> PyList(<<>>)) @@ ("experience_years" :> PyFloat(0)) @@
         ("education" :> EducationOf(PyNone, PyNone)) @@ ("target_roles" :> PyList(<<>>)) @@
         ("updated_at" :> PyInt(0)))

NoRequest == [kind |-> "none", ok |-> FALSE, touched |-> FALSE, embedding_changed |-> FALSE]

UsIdle ==
  /\ stored_user = RegisteredUser
  /\ requests = 0
  /\ last_request = NoRequest

(****************************** skill gap ***********************************)
LearnLimit == 5
GenericBelow == 70

\* A recommendation: the f-string's fixed text and the text formatted into it.
Message(template, arg) == [template |-> template, arg |-> arg]

\* A skill list that could not be read: it cannot be iterated, or an element
\* has no lower().
Unreadable == [raised |-> TRUE, set |-> {}]

\* set([s.lower() for s in x]); a str is visited by character.
LoweredSet(x) ==
  IF Joinable(x)
  THEN [raised |-> FALSE, set |-> {lower(JoinItems(x)[i]) : i \in 1..Len(JoinItems(x))}]
  ELSE Unreadable

\* set([s.lower() for s in record.get(key, [])])
SkillsOf(record, key) ==
  IF record.tag # "dict" THEN Unreadable
  ELSE LoweredSet(GetDefault(record.dict, key, PyList(<<>>)))

\* list(s) for a set s visited in `order`, an order of a superset of s.
ListOf(s, order) == SelectSeq(order, LAMBDA w : w \in s)

\* round(num / den, 1) in tenths, for num / den >= 0.  A tie needs den >= 16;
\* at 16 the quotient is an exact double and Python rounds it half to even.
TruncateTenths(num, den) == (10 * num) \div den
RoundTenths(num, den) ==
  LET q == (10 * num) \div den
      r == (10 * num) % den
  IN  IF 2 * r < den THEN q
      ELSE IF 2 * r > den THEN q + 1
      ELSE IF q % 2 = 0 THEN q ELSE q + 1

\* match_percentage before rounding, as a fraction.
MatchPercentage(matching_skills, required_skills) ==
  IF required_skills # {}
  THEN [num |-> 100 * Cardinality(matching_skills), den |-> Cardinality(required_skills)]
  ELSE [num |-> 100, den |-> 1]

\* match_percentage < 70
BelowGeneric(match_percentage) == match_percentage.num < GenericBelow * match_percentage.den

IsNumber(x) == x.tag \in {"int", "float"}

\* A number in tenths.
Tenths(x) == IF x.tag = "int" THEN 10 * x.int ELSE x.tenths

\* f"{x:.1f}" for x >= 0 given in tenths.
FormatTenths(t) == FormatNat(t \div 10) \o <<".">> \o FormatNat(t % 10)

\* The experience part: whether a comparison or subtraction raised, whether
\* user_exp < required_exp_min, and max(0, required_exp_min - user_exp) in
\* tenths.  A falsy required_exp_min (absent, None, 0) is never compared.
ExperienceGapSigned(user_exp, required_exp_min) ==
  IF ~Truthy(required_exp_min)
  THEN [raised |-> FALSE, lacking |-> FALSE, gap |-> 0]
  ELSE [raised |-> FALSE, lacking |-> Tenths(user_exp) < Tenths(required_exp_min),
        gap |-> Tenths(required_exp_min) - Tenths(user_exp)]
ExperienceGap(user_exp, required_exp_min) ==
  IF ~Truthy(required_exp_min)
  THEN [raised |-> FALSE, lacking |-> FALSE, gap |-> 0]
  ELSE IF ~IsNumber(user_exp) \/ ~IsNumber(required_exp_min)
  THEN [raised |-> TRUE, lacking |-> FALSE, gap |-> 0]
  ELSE [raised |-> FALSE, lacking |-> Tenths(user_exp) < Tenths(required_exp_min),
        gap |-> Max(0, Tenths(required_exp_min) - Tenths(user_exp))]

LearnMessageAll(missing) ==
  IF missing # <<>>
  THEN <<Message("Consider learning: {}", Join(<<",", " ">>, missing))>>
  ELSE <<>>
LearnMessage(missing) ==
  IF missing # <<>>
  THEN <<Message("Consider learning: {}", Join(<<",", " ">>, Prefix(missing, LearnLimit)))>>
  ELSE <<>>

GenericMessages(match_percentage) ==
  IF BelowGeneric(match_percentage)
  THEN <<Message("Build more experience in the required skill areas", <<>>),
         Message("Consider taking online courses or certifications", <<>>)>>
  ELSE <<>>

ExperienceMessage(exp) ==
  IF exp.lacking
  THEN <<Message("Gain {} more years of relevant experience", FormatTenths(exp.gap))>>
  ELSE <<>>

\* The dict the except clause returns.
GapFallback ==
  [matching_skills |-> <<>>, missing_skills |-> <<>>, match_percentage |-> 0,
   experience_gap_years |-> 0,
   recommendations |-> <<Message("Unable to analyze skill gap", <<>>)>>]

\* The dict the try body returns; match_percentage and experience_gap_years
\* are in tenths.
GapResult(matching, missing, match_percentage, exp) ==
  [matching_skills |-> matching, missing_skills |-> missing,
   match_percentage |-> RoundTenths(match_percentage.num, match_percentage.den),
   experience_gap_years |-> exp.gap,
   recommendations |-> LearnMessage(missing) \o GenericMessages(match_percentage) \o
                       ExperienceMessage(exp)]

\* except Exception: every fault of the try body is caught.
GapCaughtNever(raised) == FALSE
GapCaught(raised) == raised

\* What analyze_skill_gap leaves behind: whether it raised to its caller, the
\* dict it returned, and the caller's two records.
GapOutcome(raised, result, user_profile, job_posting) ==
  [raised |-> raised, result |-> result, user_profile |-> user_profile, job_posting |-> job_posting]

\* required_skills.difference(user_skills)
DifferenceKept(required_skills, user_skills) == required_skills
Difference(required_skills, user_skills) == required_skills \ user_skills

\* The try body once both skill sets and the experience part are known.
GapBody(user_profile, job_posting, user_skills, required_skills, exp, order) ==
  IF user_skills.raised \/ required_skills.raised \/ exp.raised
  THEN GapOutcome(~GapCaught(TRUE), GapFallback, user_profile, job_posting)
  ELSE GapOutcome(FALSE,
                  GapResult(ListOf(user_skills.set \cap required_skills.set, order),
                            ListOf(Difference(required_skills.set, user_skills.set), order),
                            MatchPercentage(user_skills.set \cap required_skills.set,
                                            required_skills.set),
                            exp),
                  user_profile, job_posting)

\* user_exp and required_exp_min of the two records, then the experience part.
ExperienceOf(user_profile, job_posting) ==
  IF user_profile.tag # "dict" \/ job_posting.tag # "dict"
  THEN [raised |-> TRUE, lacking |-> FALSE, gap |-> 0]
  ELSE ExperienceGap(GetDefault(user_profile.dict, "experience_years", PyInt(0)),
                     GetDefault(job_posting.dict, "experience_min", PyInt(0)))

\* analyze_skill_gap, with the order in which the interpreter visits the
\* required skills (it fixes list(matching_skills) and list(missing_skills)).
analyze_skill_gap(user_profile, job_posting, order) ==
  GapBody(user_profile, job_posting, SkillsOf(user_profile, "skills"),
          SkillsOf(job_posting, "skills_required"),
          ExperienceOf(user_profile, job_posting), order)

GapNotCalled == [called |-> FALSE, raised |-> FALSE, result |-> GapFallback]

GpIdle ==
  /\ gp_profile = PyNone
  /\ gp_job = PyNone
  /\ gp_passed = <<PyNone, PyNone>>
  /\ gp_ret = GapNotCalled

(************************** batch encoder ***********************************)
\* job["job_embedding"] = embedding
SetJobEmbedding(job, embedding) ==
  PyDict([k \in DOMAIN job.dict \cup {"job_embedding"} |->
            IF k = "job_embedding" THEN embedding ELSE job.dict[k]])

\* if not job.get("job_embedding"): job["job_embedding"] = create_job_embedding(job)
EmbedAlways(job) == SetJobEmbedding(job, create_job_embedding(job))
EmbedIfMissing(job) ==
  IF Truthy(Get(job.dict, "job_embedding")) THEN job
  ELSE SetJobEmbedding(job, create_job_embedding(job))

\* for job in job_postings: the caller's elements as the loop leaves them; it
\* ends at the first element that is no dict (job.get raises on it).
EmbedVisited(items) ==
  [i \in 1..Len(items) |-> IF i <= Visited(items) THEN EmbedIfMissing(items[i]) ELSE items[i]]

\* What batch_create_job_embeddings leaves behind: whether it raised to its
\* caller, and the caller's list, which is also the object it returns from
\* the try body and from the except clause.
BatchOutcome(raised, job_postings) ==
  [raised |-> raised, result |-> job_postings, job_postings |-> job_postings]

\* len(job_postings) raises on None or a number, job.get on a character of
\* a str; the except clause returns job_postings.
batch_create_job_embeddings(job_postings) ==
  IF job_postings.tag = "list"
  THEN BatchOutcome(FALSE, PyList(EmbedVisited(job_postings.items)))
  ELSE BatchOutcome(FALSE, job_postings)

McNotCalled == [called |-> FALSE, op |-> "none", index |-> 0, raised |-> FALSE, result |-> PyNone]

McIdle ==
  /\ mc_profile = PyNone
  /\ mc_jobs = PyNone
  /\ mc_passed = <<PyNone, PyNone>>
  /\ mc_ret = McNotCalled

(****************************** job store ***********************************)
\* A str field of a model: the value must be a str (the models are pydantic
\* v2 ones, which do not turn a number into a str).  The coercing variant
\* accepts an int and stores its decimal form.
StrFieldCoerced(value) ==
  [ok |-> value.tag \in {"str", "int"},
   value |-> IF value.tag = "int" THEN PyStr(FormatNat(value.int)) ELSE value]
StrField(value) == [ok |-> value.tag = "str", value |-> value]

\* An Optional[str] field: None, or a str field.
OptionalStrField(value) == IF value.tag = "none" THEN [ok |-> TRUE, value |-> value] ELSE StrField(value)

\* An Optional[int] field.
OptionalIntField(value) == [ok |-> value.tag \in {"none", "int"}, value |-> value]

\* A List[str] field.
StrListField(value) ==
  [ok |-> value.tag = "list" /\ \A i \in 1..Len(value.items) : value.items[i].tag = "str",
   value |-> value]

\* Optional[List[float]]
FloatListField(value) == [ok |-> value.tag \in {"none", "vec"}, value |-> value]

\* A required field: the key must be there.
RequiredField(d, key) == IF key \in DOMAIN d THEN StrField(d[key]) ELSE [ok |-> FALSE, value |-> PyNone]

\* JobPosting(**job): the fields of the model the handlers and the encoder
\* read, each validated, absent optional ones at their defaults.
JobPostingFields(d) ==
  [external_id |-> OptionalStrField(Get(d, "external_id")),
   source |-> RequiredField(d, "source"),
   title |-> RequiredField(d, "title"),
   company |-> RequiredField(d, "company"),
   location |-> RequiredField(d, "location"),
   description |-> RequiredField(d, "description"),
   requirements |-> OptionalStrField(Get(d, "requirements")),
   skills_required |-> StrListField(GetDefault(d, "skills_required", PyList(<<>>))),
   experience_min |-> OptionalIntField(Get(d, "experience_min")),
   experience_max |-> OptionalIntField(Get(d, "experience_max")),
   job_embedding |-> FloatListField(Get(d, "job_embedding"))]

\* job_model.dict(by_alias=True, exclude={"id"}), or raised (ValidationError).
JobPosting(job) ==
  LET fields == JobPostingFields(job.dict)
  IN  [raised |-> \E k \in DOMAIN fields : ~fields[k].ok,
       dict |-> [k \in DOMAIN fields |-> fields[k].value]]

\* insert_one(document): the document gets the next _id.
InsertOne(collection, document) ==
  Append(collection, PyDict(("_id" :> PyInt(Len(collection) + 1)) @@ document))

\* find_one({"external_id": job.get("external_id"), "source": job.get("source")})
Existing(collection, job) ==
  \E i \in 1..Len(collection) :
    /\ Get(collection[i].dict, "external_id") = Get(job.dict, "external_id")
    /\ Get(collection[i].dict, "source") = Get(job.dict, "source")

\* One iteration of the saving loop once the job is validated: a job already
\* stored is skipped, an invalid one raises, a new one is inserted.
SaveJob(saved, job, model) ==
  IF saved.raised \/ Existing(saved.collection, job) THEN saved
  ELSE IF model.raised THEN [raised |-> TRUE, collection |-> saved.collection]
  ELSE [raised |-> FALSE, collection |-> InsertOne(saved.collection, model.dict)]

\* for job in jobs: ... over the jobs from position i on.
RECURSIVE SaveJobs(_, _, _)
SaveJobs(saved, jobs, i) ==
  IF i > Len(jobs) THEN saved
  ELSE SaveJobs(SaveJob(saved, jobs[i], JobPosting(jobs[i])), jobs, i + 1)

\* search_jobs for the jobs the sources returned: the collection it leaves
\* and whether it raised (answered 500).  No jobs: nothing is saved.
search_jobs(found, collection) ==
  IF found = <<>> THEN [raised |-> FALSE, collection |-> collection]
  ELSE SaveJobs([raised |-> FALSE, collection |-> collection],
                batch_create_job_embeddings(PyList(found)).result.items, 1)

\* job_dict["job_embedding"] = create_job_embedding(job_dict)
WithJobEmbedding(job_dict) == SetJobEmbedding(job_dict, create_job_embedding(job_dict)).dict

\* create_manual_job: JobPosting(source="manual", ...).dict(...) with its
\* encoding, inserted.
create_manual_job(job_data, collection) ==
  InsertOne(collection, WithJobEmbedding(PyDict(JobPosting(PyDict(("source" :> PyStr(<<"m">>)) @@ job_data)).dict)))

(************************** ranked search ***********************************)
\* find_one(...) of the saving loop: the first stored document with the
\* job's external_id and source.
FindOne(collection, job) ==
  collection[CHOOSE i \in 1..Len(collection) :
               /\ Get(collection[i].dict, "external_id") = Get(job.dict, "external_id")
               /\ Get(collection[i].dict, "source") = Get(job.dict, "source")
               /\ \A j \in 1..(i - 1) :
                    \/ Get(collection[j].dict, "external_id") # Get(job.dict, "external_id")
                    \/ Get(collection[j].dict, "source") # Get(job.dict, "source")]

\* job["_id"] = ...
WithId(job, id) == Merge(job, PyDict("_id" :> id))

\* One iteration of the saving loop with saved_jobs kept: the job takes the
\* _id of the stored document, or is inserted and takes the new _id.
CollectJob(saved, job, model) ==
  IF saved.raised THEN saved
  ELSE IF Existing(saved.collection, job)
  THEN [saved EXCEPT !.saved_jobs = Append(@, WithId(job, FindOne(saved.collection, job).dict["_id"]))]
  ELSE IF model.raised THEN [saved EXCEPT !.raised = TRUE]
  ELSE [raised |-> FALSE,
        collection |-> InsertOne(saved.collection, model.dict),
        saved_jobs |-> Append(saved.saved_jobs, WithId(job, PyInt(Len(saved.collection) + 1)))]

RECURSIVE CollectJobs(_, _, _)
CollectJobs(saved, jobs, i) ==
  IF i > Len(jobs) THEN saved
  ELSE CollectJobs(CollectJob(saved, jobs[i], JobPosting(jobs[i])), jobs, i + 1)

\* min_score and top_n as search_jobs passes them, and find_matching_jobs's
\* own default for min_score, in hundredths.
SearchMinScore == 0
SearchTopN == 50
DefaultMinScore == 4000

\* if user: saved_jobs = find_matching_jobs(user, saved_jobs, min_score=0, top_n=50)
RankForUserByDefault(user, saved_jobs) ==
  IF user = PyNone THEN saved_jobs
  ELSE find_matching_jobs(user, PyList(saved_jobs), DefaultMinScore, SearchTopN).result
RankForUser(user, saved_jobs) ==
  IF user = PyNone THEN saved_jobs
  ELSE find_matching_jobs(user, PyList(saved_jobs), SearchMinScore, SearchTopN).result

\* job["id"] = str(job["_id"]); del job["_id"]
ServeId(job) ==
  IF "_id" \in DOMAIN job.dict
  THEN PyDict([k \in (DOMAIN job.dict \ {"_id"}) \cup {"id"} |->
                 IF k = "id" THEN PyStr(FormatNat(job.dict["_id"].int)) ELSE job.dict[k]])
  ELSE job

ServeIds(jobs) == [k \in 1..Len(jobs) |-> ServeId(jobs[k])]

\* The answer of search_jobs once the jobs are saved and ranked.
SearchAnswer(saved, ranked) ==
  IF saved.raised
  THEN [code |-> 500, collection |-> saved.collection, saved_jobs |-> <<>>, jobs |-> <<>>, count |-> 0]
  ELSE [code |-> 200, collection |-> saved.collection, saved_jobs |-> saved.saved_jobs,
        jobs |-> ServeIds(ranked), count |-> Len(ranked)]

\* The rest of search_jobs once the jobs are saved.
RankSaved(saved, user) ==
  SearchAnswer(saved, IF saved.raised THEN <<>> ELSE RankForUser(user, saved.saved_jobs))

\* search_jobs for the jobs the sources returned and the user find_one gives
\* for the caller (None for an anonymous caller or an unknown id).
search_and_rank(found, collection, user) ==
  IF found = <<>>
  THEN [code |-> 200, collection |-> collection, saved_jobs |-> <<>>, jobs |-> <<>>, count |-> 0]
  ELSE RankSaved(CollectJobs([raised |-> FALSE, collection |-> collection, saved_jobs |-> <<>>],
                             batch_create_job_embeddings(PyList(found)).result.items, 1),
                 user)

(*************************** application store ******************************)
\* find_one({"_id": ObjectId(job_id)}); None when there is none.
FindJob(collection, job_id) ==
  IF \E i \in 1..Len(collection) : collection[i].dict["_id"] = job_id
  THEN collection[CHOOSE i \in 1..Len(collection) : collection[i].dict["_id"] = job_id]
  ELSE PyNone

\* find_one({"user_id": ..., "job_id": ...}) finds an application.
AlreadyApplied(applications, job_id) ==
  \E i \in 1..Len(applications) : applications[i].job_id = job_id

\* match_score = None; if user and user.get("resume_embedding") and
\* job.get("job_embedding"): match_score = calculate_match_score(...)
ScoreAlways(user, job) ==
  PyScore(calculate_match_score(IF user.tag = "dict" THEN Get(user.dict, "resume_embedding") ELSE PyNone,
                                Get(job.dict, "job_embedding")))
ApplicationScore(user, job) ==
  IF Truthy(user) /\ Truthy(Get(user.dict, "resume_embedding")) /\ Truthy(Get(job.dict, "job_embedding"))
  THEN PyScore(calculate_match_score(user.dict["resume_embedding"], job.dict["job_embedding"]))
  ELSE PyNone

\* applied_date=datetime.utcnow() if status == APPLIED else None; the
\* validator set_applied_date fills it for APPLIED when it is missing.
AppliedDate(status, now) == IF status = "applied" THEN PyInt(now) ELSE PyNone

\* Application(...).dict(...): the fields the handlers set.
Application(job_id, status, match_score, now) ==
  [job_id |-> job_id, status |-> status, match_score |-> match_score,
   applied_date |-> AppliedDate(status, now), notes |-> PyNone, updated_at |-> PyInt(now)]

\* The answer of create_application and the application it would insert.
ApplicationAnswer(code, application) == [code |-> code, application |-> application]

\* create_application once the job is looked up: 404 without the job, 400
\* for a second application, else 201 with the application to insert.
create_application(user, job, applications, job_id, status, now) ==
  IF ~Truthy(job) THEN ApplicationAnswer(404, PyNone)
  ELSE IF AlreadyApplied(applications, job_id) THEN ApplicationAnswer(400, PyNone)
  ELSE ApplicationAnswer(201, Application(job_id, status, ApplicationScore(user, job), now))

\* update_data of update_application: the fields the request set, updated_at,
\* and applied_date when the request sets the status to APPLIED.  The variant
\* leaves applied_date to the stored document.
UpdateDataNoDate(app_update, now) == app_update @@ ("updated_at" :> PyInt(now))
UpdateData(app_update, now) ==
  IF "status" \in DOMAIN app_update /\ app_update["status"] = "applied"
  THEN ("applied_date" :> PyInt(now)) @@ app_update @@ ("updated_at" :> PyInt(now))
  ELSE app_update @@ ("updated_at" :> PyInt(now))

\* {"$set": update_data} on one application.
SetFields(application, update_data) ==
  [k \in DOMAIN application |-> IF k \in DOMAIN update_data THEN update_data[k] ELSE application[k]]

\* update_application: 404 when no application has the id, else the
\* application with update_data set.
update_application(applications, application_id, update_data) ==
  IF application_id \in 1..Len(applications)
  THEN [code |-> 200,
        applications |-> [applications EXCEPT ![application_id] = SetFields(@, update_data)]]
  ELSE [code |-> 404, applications |-> applications]

NoResponse == [handler |-> "none", code |-> 0]

JbIdle ==
  /\ jobs_collection = <<>>
  /\ applications_collection = <<>>
  /\ last_response = NoResponse

(************************ interleaved searches ******************************)
\* The search_jobs requests that can be in progress together.
SearchIds == 1..MaxSearches

\* A request not yet made.
SearchIdle == [pc |-> "idle", jobs |-> <<>>, i |-> 0, existing |-> FALSE, code |-> 0]

\* jobs = batch_create_job_embeddings(jobs); the loop starts at the first
\* job with its find_one.  No jobs: the request answers at once.
SearchBegun(found) ==
  IF found = <<>> THEN [SearchIdle EXCEPT !.pc = "done", !.code = 200]
  ELSE [pc |-> "find", jobs |-> batch_create_job_embeddings(PyList(found)).result.items,
        i |-> 1, existing |-> FALSE, code |-> 0]

\* existing = await jobs_collection.find_one({...}) for the job at hand.
SearchFound(search, collection) ==
  [search EXCEPT !.pc = "save", !.existing = Existing(collection, search.jobs[search.i])]

\* The request moves to the next job, or answers after the last one.
SearchAdvanced(search) ==
  IF search.i = Len(search.jobs)
  THEN [search EXCEPT !.pc = "done", !.code = 200]
  ELSE [search EXCEPT !.pc = "find", !.i = @ + 1]

\* The rest of the loop body, on what find_one returned: an existing job is
\* skipped, a job the model rejects ends the request with 500, a new job is
\* inserted.
SearchSaved(search, collection, model) ==
  IF search.existing THEN [search |-> SearchAdvanced(search), collection |-> collection]
  ELSE IF model.raised
  THEN [search |-> [search EXCEPT !.pc = "done", !.code = 500], collection |-> collection]
  ELSE [search |-> SearchAdvanced(search), collection |-> InsertOne(collection, model.dict)]

(************************ interleaved profile requests **********************)
PendingIds == 1..MaxPending

\* A request that has not arrived.
PendingIdle == [pc |-> "idle", kind |-> "none", update_data |-> PyDict(<<>>)]

\* A request between its find_one and its update_one: update_data holds the
\* fingerprint computed from the copy it merged.
PendingWrite(kind, update_data) == [pc |-> "write", kind |-> kind, update_data |-> update_data]

\* A request that has answered.
PendingDone(request) == [request EXCEPT !.pc = "done"]

(************************ database module ***********************************)
\* The module as imported: _mongo_client = None, _database = None, no call
\* in progress (attempt 0), nothing answered.  pinged tells whether a ping on
\* the handle in _database has succeeded; handed is what the latest answered
\* call gave its caller, and handed_pinged whether a ping on it had succeeded.
DbUnconnected ==
  [_mongo_client |-> "None", _database |-> "None", pinged |-> FALSE,
   attempt |-> 0, caller |-> "none", calls |-> 0,
   answer |-> "none", handed |-> "None", handed_pinged |-> FALSE]

\* max_retries
MaxRetries == 3

\* return _database
HandOut(db, caller) ==
  [db EXCEPT !.answer = "returned", !.handed = db._database, !.handed_pinged = db.pinged,
             !.calls = @ + 1]

\* One pass of the loop up to the ping: a new client, and _database is set
\* to its database before the ping is awaited.
BeginAttempt(db, caller, attempt) ==
  [db EXCEPT !._mongo_client = "client", !._database = "db", !.pinged = FALSE,
             !.attempt = attempt, !.caller = caller]

\* connect_db up to its first await; get_database is the same, its test of
\* _database being the one connect_db makes.
connect_db(db, caller) ==
  IF db._database # "None" THEN HandOut(db, caller)
  ELSE [BeginAttempt(db, caller, 1) EXCEPT !.calls = @ + 1]

\* raise: the call in progress ends; the globals stay as they are.
ConnectRaised(db) ==
  [db EXCEPT !.attempt = 0, !.answer = "raised", !.handed = "None", !.handed_pinged = FALSE]

\* connect_db from the answer of the ping on: return the database, retry
\* after the sleep, or raise.
PingAnswered(db, outcome) ==
  CASE outcome = "ok" ->
         [db EXCEPT !.pinged = TRUE, !.attempt = 0, !.answer = "returned",
                    !.handed = db._database, !.handed_pinged = TRUE]
    [] outcome = "ConnectionFailure" ->
         IF db.attempt < MaxRetries
         THEN BeginAttempt(db, db.caller, db.attempt + 1)
         ELSE ConnectRaised(db)
    [] outcome = "Exception" -> ConnectRaised(db)

\* disconnect_db
disconnect_db(db) ==
  IF db._mongo_client # "None"
  THEN [db EXCEPT !._mongo_client = "None", !._database = "None", !.pinged = FALSE,
                  !.calls = @ + 1]
  ELSE [db EXCEPT !.calls = @ + 1]

CvIdle ==
  /\ searches = [r \in SearchIds |-> SearchIdle]
  /\ pending = [r \in PendingIds |-> PendingIdle]
  /\ db_module = DbUnconnected

RestIdle == GpIdle /\ McIdle /\ JbIdle /\ CvIdle

(************************ encoder caller ************************************)
TextAlphabet == {"c", "L", " "}

RECURSIVE TextsOfLen(_)
TextsOfLen(n) ==
  IF n = 0 THEN {<<>>}
  ELSE {Append(t, ch) : t \in TextsOfLen(n - 1), ch \in TextAlphabet}

Texts == UNION {TextsOfLen(n) : n \in 0..MaxTextLen}

NoCall == [order |-> <<>>, buckets |-> <<>>, unit |-> 0, result |-> PyNone]

EncIdle ==
  /\ enc_text = <<>>
  /\ enc_first = NoCall
  /\ enc_last = NoCall
  /\ ncalls = 0

ScIdle ==
  /\ sc_profile = PyNone
  /\ sc_job = PyNone
  /\ sc_called = FALSE
  /\ sc_score = 0

NotCalled == [called |-> FALSE, raised |-> FALSE, result |-> <<>>]

RkIdle ==
  /\ rk_profile = PyNone
  /\ rk_jobs = PyNone
  /\ rk_min_score = 0
  /\ rk_top_n = 0
  /\ rk_passed = <<PyNone, PyNone>>
  /\ rk_ret = NotCalled

InitEncode ==
  /\ enc_text \in Texts
  /\ enc_first = NoCall
  /\ enc_last = NoCall
  /\ ncalls = 0
  /\ ScIdle
  /\ RkIdle
  /\ UsIdle
  /\ RestIdle

\* A call _simple_embedding(enc_text); the interpreter picks the visiting order.
Encode ==
  /\ ncalls < MaxCalls
  /\ \E order \in IterationOrders(WordSet(split(lower(enc_text)))) :
       /\ enc_last' = [order |-> order, buckets |-> buckets_in_order(order),
                        unit |-> TokenUnit(split(lower(enc_text))),
                        result |-> embedding_in_order(enc_text, order)]
       /\ enc_first' = IF enc_first = NoCall THEN enc_last' ELSE enc_first
  /\ ncalls' = ncalls + 1
  /\ UNCHANGED <<enc_text, scVars, rkVars, usVars, restVars>>

\* A call on some other text in between; its result goes to that caller.
EncodeOther ==
  /\ ncalls < MaxCalls
  /\ \E t \in Texts \ {enc_text} : ncalls' = ncalls + 1
  /\ UNCHANGED <<enc_text, enc_first, enc_last, scVars, rkVars, usVars, restVars>>

NextEncode == Encode \/ EncodeOther

SpecEncode == InitEncode /\ [][NextEncode]_vars

(************************* scorer caller ************************************)
\* Components a caller's vector may hold: 0.0, 1.0, a tiny
\* double (1e-200 in spirit: its square underflows) and a huge one (1e200).
ScoreComponents == {<<0, 0>>, <<1, 0>>, <<1, -1>>, <<1, 1>>}

RECURSIVE ComponentSeqs(_)
ComponentSeqs(n) ==
  IF n = 0 THEN {<<>>}
  ELSE {Append(s, c) : s \in ComponentSeqs(n - 1), c \in ScoreComponents}

VecOf(cs) == PyVecMag([i \in 1..Len(cs) |-> cs[i][1]], [i \in 1..Len(cs) |-> cs[i][2]])

ScoreVectors == {VecOf(cs) : cs \in UNION {ComponentSeqs(n) : n \in 0..MaxVecLen}}

\* None, a value that is no list of numbers, and the vectors.
ScoreArgs == {PyNone, PyStr(<<"c">>)} \cup ScoreVectors

InitScore ==
  /\ sc_profile \in ScoreArgs
  /\ sc_job \in ScoreArgs
  /\ sc_called = FALSE
  /\ sc_score = 0
  /\ EncIdle
  /\ RkIdle
  /\ UsIdle
  /\ RestIdle

CalculateMatchScore ==
  /\ ~sc_called
  /\ sc_score' = calculate_match_score(sc_profile, sc_job)
  /\ sc_called' = TRUE
  /\ UNCHANGED <<sc_profile, sc_job, encVars, rkVars, usVars, restVars>>

NextScore == CalculateMatchScore

SpecScore == InitScore /\ [][NextScore]_vars

(************************* ranker caller ************************************)
Text_c == <<"c">>
Text_l == <<"l">>
Text_Cl == <<"C", "l">>

\* Cached fingerprints a caller's records may carry.
CachedA == PyVec(<<1, 0, 1>>, 2)
CachedB == PyVec(<<1, 1, 0>>, 2)
CachedB2 == PyVec(<<2, 2, 0>>, 4)
CachedC == PyVec(<<1, 1, 1>>, 3)
CachedLow == PyVec(<<0, 1, 0>>, 1)
CachedZero == PyVec(ZeroEmbedding, 1)
CachedHuge == PyVecMag(<<1, 0, 0>>, <<1, 0, 0>>)
EmptyList == PyVec(<<>>, 1)

ProfileFields ==
  ("skills" :> PyList(<<PyStr(Text_c), PyStr(Text_Cl)>>)) @@
  ("experience_years" :> PyFloat(20)) @@
  ("target_roles" :> PyList(<<PyStr(Text_l)>>))

ProfileWith(embedding) == PyDict(("resume_embedding" :> embedding) @@ ProfileFields)

JobFields(id, title) ==
  ("_id" :> PyInt(id)) @@ ("title" :> PyStr(title)) @@
  ("skills_required" :> PyList(<<PyStr(Text_c)>>))

JobWith(id, title, embedding) == PyDict(("job_embedding" :> embedding) @@ JobFields(id, title))

\* Job records: one without a fingerprint, the others with a cached one; two
\* of them score the same against every profile.
RankJobs ==
  {PyDict(JobFields(1, Text_Cl)), JobWith(2, Text_c, CachedB), JobWith(3, Text_l, CachedB2),
   JobWith(4, Text_c, CachedC), JobWith(5, Text_c, CachedLow)}

RankProfiles == {PyDict(ProfileFields), ProfileWith(CachedA)}

\* Anything a caller may pass as an element, a list or a profile.
AnyElements ==
  {PyDict(JobFields(1, Text_Cl)), JobWith(2, Text_c, EmptyList), JobWith(3, Text_c, PyNone),
   JobWith(4, Text_c, CachedB), JobWith(6, Text_c, CachedZero), JobWith(7, Text_c, CachedHuge),
   PyInt(3)}

AnyProfiles ==
  {PyNone, PyDict(ProfileFields), ProfileWith(EmptyList), ProfileWith(CachedA),
   ProfileWith(CachedZero)}

RECURSIVE ListsOver(_, _)
ListsOver(S, n) ==
  IF n = 0 THEN {<<>>}
  ELSE {Append(l, x) : l \in ListsOver(S, n - 1), x \in S}

MinScores == {0, 5000}
TopNs == {0, 1, 2, 50}

InitRank ==
  /\ rk_profile \in RankProfiles
  /\ rk_jobs \in {PyList(l) : l \in UNION {ListsOver(RankJobs, n) : n \in 0..MaxJobs}}
  /\ rk_min_score \in MinScores
  /\ rk_top_n \in TopNs
  /\ rk_passed = <<PyNone, PyNone>>
  /\ rk_ret = NotCalled
  /\ EncIdle
  /\ ScIdle
  /\ UsIdle
  /\ RestIdle

InitRankAny ==
  /\ rk_profile \in AnyProfiles
  /\ rk_jobs \in {PyNone, PyStr(<<>>), PyStr(Text_c)}
                 \cup {PyList(l) : l \in UNION {ListsOver(AnyElements, n) : n \in 0..MaxAnyJobs}}
  /\ rk_min_score \in MinScores
  /\ rk_top_n \in {1, 50}
  /\ rk_passed = <<PyNone, PyNone>>
  /\ rk_ret = NotCalled
  /\ EncIdle
  /\ ScIdle
  /\ UsIdle
  /\ RestIdle

\* The caller receives what the call returned; its profile and job list are
\* as the call left them.
Return(r) ==
  /\ rk_ret' = [called |-> TRUE, raised |-> r.raised, result |-> r.result]
  /\ rk_profile' = r.user_profile
  /\ rk_jobs' = r.job_postings

\* A call find_matching_jobs(rk_profile, rk_jobs, rk_min_score, rk_top_n).
FindMatchingJobs ==
  /\ ~rk_ret.called
  /\ Return(find_matching_jobs(rk_profile, rk_jobs, rk_min_score, rk_top_n))
  /\ rk_passed' = <<rk_profile, rk_jobs>>
  /\ UNCHANGED <<rk_min_score, rk_top_n, encVars, scVars, usVars, restVars>>

NextRank == FindMatchingJobs

SpecRank == InitRank /\ [][NextRank]_vars

SpecRankAny == InitRankAny /\ [][NextRank]_vars

(************************* user store caller ********************************)
\* The values a profile update may set, by field.
UpdateValues ==
  [skills |-> {PyNone, PyList(<<PyStr(Text_c)>>), PyList(<<PyStr(Text_c), PyStr(Text_Cl)>>)},
   experience_years |-> {PyFloat(20), PyFloat(35)},
   target_roles |-> {PyList(<<PyStr(Text_l)>>)},
   education |-> {EducationOf(PyStr(Text_c), PyStr(Text_l))}]

\* The bodies of PUT /me: any subset of the fields, each with one of its values.
ProfileUpdates ==
  UNION {{PyDict(f) : f \in {g \in [S -> UNION {UpdateValues[k] : k \in DOMAIN UpdateValues}] :
                               \A k \in S : g[k] \in UpdateValues[k]}} :
         S \in SUBSET DOMAIN UpdateValues}

RECURSIVE Repeat(_, _)
Repeat(text, n) == IF n = 0 THEN <<>> ELSE text \o Repeat(text, n - 1)

\* The files of POST /resume: their text and what the extractors find in it.
ResumeFiles ==
  {[text |-> Repeat(<<"c", " ", "L", " ">>, 13), skills |-> PyList(<<PyStr(Text_c)>>),
    education |-> EducationOf(PyNone, PyNone), experience_years |-> PyFloat(0)],
   [text |-> Repeat(<<"c", "l", " ">>, 17), skills |-> PyList(<<>>),
    education |-> EducationOf(PyStr(Text_c), PyNone), experience_years |-> PyFloat(20)],
   [text |-> <<" ">> \o Repeat(<<"c", " ">>, 25), skills |-> PyList(<<PyStr(Text_c)>>),
    education |-> EducationOf(PyNone, PyNone), experience_years |-> PyFloat(0)]}

InitUsers ==
  /\ UsIdle
  /\ EncIdle
  /\ ScIdle
  /\ RkIdle
  /\ RestIdle

\* users_collection.update_one({"_id": ...}, {"$set": update_data})
UpdateOne(kind, update_data) ==
  /\ stored_user' = Merge(stored_user, update_data)
  /\ requests' = requests + 1
  /\ last_request' =
       [kind |-> kind, ok |-> TRUE,
        touched |-> DOMAIN update_data.dict \cap EmbeddingKeys # {},
        embedding_changed |->
          /\ stored_user.dict["resume_embedding"] # PyNone
          /\ Get(update_data.dict, "resume_embedding") # PyNone
          /\ update_data.dict["resume_embedding"] # stored_user.dict["resume_embedding"]]

\* The request fails before anything is written.
Rejected(kind) ==
  /\ requests' = requests + 1
  /\ last_request' = [kind |-> kind, ok |-> FALSE, touched |-> FALSE, embedding_changed |-> FALSE]
  /\ UNCHANGED stored_user

\* PUT /me for the user.
UpdateUserProfile ==
  /\ requests < MaxRequests
  /\ \E profile_update \in ProfileUpdates :
       UpdateOne("update", update_user_profile(stored_user, profile_update, requests + 1))
  /\ UNCHANGED <<encVars, scVars, rkVars, restVars>>

\* The rest of POST /resume once the file is parsed.
StoreResume(parsed) ==
  IF parsed.raised THEN Rejected("upload")
  ELSE UpdateOne("upload", upload_resume(stored_user, parsed.parsed_data, requests + 1))

\* POST /resume for the user.
UploadResume ==
  /\ requests < MaxRequests
  /\ \E file \in ResumeFiles : StoreResume(parse_resume(file))
  /\ UNCHANGED <<encVars, scVars, rkVars, restVars>>

NextUsers == UpdateUserProfile \/ UploadResume

SpecUsers == InitUsers /\ [][NextUsers]_vars

(******************* interleaved profile requests caller ********************)
\* The bodies of PUT /me sent while another request is in progress.
RacingUpdates ==
  {PyDict("skills" :> PyList(<<PyStr(Text_c)>>)),
   PyDict("target_roles" :> PyList(<<PyStr(Text_l)>>)),
   PyDict(("experience_years" :> PyFloat(20)) @@
          ("education" :> EducationOf(PyStr(Text_c), PyStr(Text_l))))}

InitPending == InitUsers

\* PUT /me up to its update_one: update_data is built and, when it names one
\* of the fingerprint fields, find_one is answered from the collection as it
\* is now and the fingerprint is computed from the merged copy.
BeginUpdate(r) ==
  /\ pending[r].pc = "idle"
  /\ \E profile_update \in RacingUpdates :
       pending' = [pending EXCEPT
                     ![r] = PendingWrite("update",
                                         update_user_profile(stored_user, profile_update,
                                                             requests + 1))]
  /\ UNCHANGED <<encVars, scVars, rkVars, usVars, gpVars, mcVars, jbVars, searches, db_module>>

\* The rest of POST /resume once the file is parsed, up to its update_one.
ReadForResume(r, parsed) ==
  pending' = [pending EXCEPT
                ![r] = IF parsed.raised
                       THEN PendingDone([PendingIdle EXCEPT !.kind = "upload"])
                       ELSE PendingWrite("upload",
                                         upload_resume(stored_user, parsed.parsed_data,
                                                       requests + 1))]

\* POST /resume up to its update_one.
BeginUpload(r) ==
  /\ pending[r].pc = "idle"
  /\ \E file \in ResumeFiles : ReadForResume(r, parse_resume(file))
  /\ UNCHANGED <<encVars, scVars, rkVars, usVars, gpVars, mcVars, jbVars, searches, db_module>>

\* The request's update_one({"$set": update_data}) and its answer.
WriteUser(r) ==
  /\ pending[r].pc = "write"
  /\ UpdateOne(pending[r].kind, pending[r].update_data)
  /\ pending' = [pending EXCEPT ![r] = PendingDone(@)]
  /\ UNCHANGED <<encVars, scVars, rkVars, gpVars, mcVars, jbVars, searches, db_module>>

NextPending == \E r \in PendingIds : BeginUpdate(r) \/ BeginUpload(r) \/ WriteUser(r)

SpecPending == InitPending /\ [][NextPending]_vars

(************************* skill-gap caller *********************************)
\* A key the record does not hold.
Absent == [tag |-> "absent"]
NoField == [k \in {} |-> PyNone]
Field(key, value) == IF value = Absent THEN NoField ELSE key :> value

SkillLists(alphabet) ==
  {PyList(l) : l \in UNION {ListsOver({PyStr(t) : t \in alphabet}, n) : n \in 0..MaxSkills}}

GapProfileWith(skills, experience_years) ==
  PyDict(Field("skills", skills) @@ Field("experience_years", experience_years) @@
         ("name" :> PyStr(Text_c)))

GapJobWith(skills_required, experience_min) ==
  PyDict(Field("skills_required", skills_required) @@ Field("experience_min", experience_min) @@
         ("title" :> PyStr(Text_c)))

\* Profiles as the User model shapes them: skills a list of strings in any
\* letter case and with repeats, experience_years a float.
GapProfiles ==
  {GapProfileWith(s, e) : s \in SkillLists({<<"C">>, <<"c", "l">>}) \cup {Absent},
                          e \in {Absent, PyFloat(10), PyFloat(50)}}

\* Jobs as the JobPosting model shapes them: experience_min an int or None.
GapJobs ==
  {GapJobWith(s, e) : s \in SkillLists({<<"c">>, <<"C", "l">>, <<"L">>}) \cup {Absent},
                      e \in {Absent, PyNone, PyInt(0), PyInt(2), PyInt(4)}}

\* Jobs that require more skills than one message names.
LongSkills ==
  <<PyStr(<<"c">>), PyStr(<<"C", "l">>), PyStr(<<"L">>), PyStr(<<"c", "c">>), PyStr(<<"l", "l">>),
    PyStr(<<"l", "c">>)>>

GapLongJobs ==
  {GapJobWith(PyList(SubSeq(LongSkills, 1, n)), e) : n \in {5, 6}, e \in {Absent, PyInt(4)}}

\* Records no model has validated: no record at all, a skill list that is
\* None, holds a non-string or is one string, an experience that is None or
\* a string.
GapAnyProfiles ==
  {PyNone,
   GapProfileWith(PyNone, PyFloat(10)),
   GapProfileWith(PyList(<<PyStr(Text_c), PyInt(3)>>), PyFloat(10)),
   GapProfileWith(PyStr(Text_Cl), PyFloat(10)),
   GapProfileWith(PyList(<<PyStr(Text_c)>>), PyNone),
   GapProfileWith(PyList(<<PyStr(Text_c)>>), PyStr(Text_c)),
   GapProfileWith(PyList(<<PyStr(Text_Cl)>>), PyFloat(10)),
   GapProfileWith(Absent, Absent)}

GapAnyJobs ==
  {PyNone,
   GapJobWith(PyNone, PyInt(2)),
   GapJobWith(PyList(<<PyInt(3), PyStr(Text_c)>>), PyInt(2)),
   GapJobWith(PyStr(Text_Cl), PyInt(2)),
   GapJobWith(PyList(<<PyStr(Text_c)>>), PyStr(Text_c))}
  \cup {GapJobWith(s, e) : s \in {PyList(<<>>), PyList(<<PyStr(Text_c), PyStr(Text_l)>>), Absent},
                           e \in {Absent, PyNone, PyInt(0), PyInt(4)}}

GapCallerIdle ==
  /\ gp_passed = <<PyNone, PyNone>>
  /\ gp_ret = GapNotCalled
  /\ McIdle
  /\ JbIdle
  /\ EncIdle
  /\ ScIdle
  /\ RkIdle
  /\ UsIdle
  /\ CvIdle

InitGap ==
  /\ gp_profile \in GapProfiles
  /\ gp_job \in GapJobs \cup GapLongJobs
  /\ GapCallerIdle

InitGapAny ==
  /\ gp_profile \in GapAnyProfiles
  /\ gp_job \in GapAnyJobs
  /\ GapCallerIdle

\* The orders in which the interpreter can visit the job's required skills.
RequiredOrders(job_posting) == IterationOrders(SkillsOf(job_posting, "skills_required").set)

\* The caller receives what the call returned; its two records are as the
\* call left them.
GapReturn(r) ==
  /\ gp_ret' = [called |-> TRUE, raised |-> r.raised, result |-> r.result]
  /\ gp_profile' = r.user_profile
  /\ gp_job' = r.job_posting

\* A call analyze_skill_gap(gp_profile, gp_job).
AnalyzeSkillGap ==
  /\ ~gp_ret.called
  /\ \E order \in RequiredOrders(gp_job) : GapReturn(analyze_skill_gap(gp_profile, gp_job, order))
  /\ gp_passed' = <<gp_profile, gp_job>>
  /\ UNCHANGED <<encVars, scVars, rkVars, usVars, mcVars, jbVars, cvVars>>

NextGap == AnalyzeSkillGap

SpecGap == InitGap /\ [][NextGap]_vars

SpecGapAny == InitGapAny /\ [][NextGap]_vars

(************************** matcher caller **********************************)
\* Profiles a caller may hold: none at all, well-formed ones with and without
\* a cached fingerprint, one without any field, and ones whose skills or
\* resume_text are of an unexpected type.
MatcherProfiles ==
  {PyNone, PyDict(ProfileFields), ProfileWith(CachedA), PyDict(NoField),
   PyDict(("skills" :> PyInt(3)) @@ ProfileFields),
   PyDict(("skills" :> PyStr(Text_Cl)) @@ ProfileFields),
   PyDict(("target_roles" :> PyList(<<PyStr(Text_l), PyNone>>)) @@ ProfileFields),
   PyDict(("resume_text" :> PyInt(3)) @@ ProfileFields),
   PyDict(("resume_text" :> PyList(<<PyStr(Text_c)>>)) @@ ProfileFields)}

\* Job records and other elements a caller's list may hold: without a
\* fingerprint, with an empty or null one, with a cached one, with a field of
\* an unexpected type, and an element that is no record.
MatcherJobs ==
  {PyDict(JobFields(1, Text_Cl)), JobWith(2, Text_c, EmptyList), JobWith(3, Text_c, PyNone),
   JobWith(4, Text_c, CachedB),
   PyDict(("experience_min" :> PyInt(4)) @@ JobFields(5, Text_l)),
   PyDict(("skills_required" :> PyList(<<PyInt(3)>>)) @@ JobFields(6, Text_c)),
   PyDict(("description" :> PyInt(3)) @@ JobFields(7, Text_c)),
   PyInt(3)}

InitMatcher ==
  /\ mc_profile \in MatcherProfiles
  /\ mc_jobs \in {PyNone} \cup
                 {PyList(l) : l \in UNION {ListsOver(MatcherJobs, n) : n \in 0..MaxBatch}}
  /\ mc_passed = <<PyNone, PyNone>>
  /\ mc_ret = McNotCalled
  /\ GpIdle
  /\ JbIdle
  /\ EncIdle
  /\ ScIdle
  /\ RkIdle
  /\ UsIdle
  /\ CvIdle

\* The caller receives what the operation returned.
McReturn(op, index, raised, result) ==
  /\ mc_ret' = [called |-> TRUE, op |-> op, index |-> index, raised |-> raised, result |-> result]
  /\ mc_passed' = <<mc_profile, mc_jobs>>

\* The caller of an encoder receives the vector; the text that was encoded
\* is kept beside it.
McEmbedded(op, index, r) ==
  /\ mc_ret' = [called |-> TRUE, op |-> op, index |-> index, raised |-> r.raised,
                result |-> r.embedding, text |-> r.text]
  /\ mc_passed' = <<mc_profile, mc_jobs>>

\* The positions of the caller's job list.
McPositions == IF mc_jobs.tag = "list" THEN 1..Len(mc_jobs.items) ELSE {}

\* The positions that hold a record.
McRecords == {i \in McPositions : mc_jobs.items[i].tag = "dict"}

\* A call create_profile_embedding(mc_profile).
CreateProfileEmbedding ==
  /\ ~mc_ret.called
  /\ McEmbedded("create_profile_embedding", 0, EmbeddingOutcome(profile_text(mc_profile)))
  /\ UNCHANGED <<mc_profile, mc_jobs>>
  /\ UNCHANGED <<encVars, scVars, rkVars, usVars, gpVars, jbVars, cvVars>>

\* A call create_job_embedding(job) on an element of the list.
CreateJobEmbedding ==
  /\ ~mc_ret.called
  /\ \E i \in McPositions :
       McEmbedded("create_job_embedding", i, EmbeddingOutcome(job_text(mc_jobs.items[i])))
  /\ UNCHANGED <<mc_profile, mc_jobs>>
  /\ UNCHANGED <<encVars, scVars, rkVars, usVars, gpVars, jbVars, cvVars>>

\* A call calculate_match_score(profile's fingerprint, job's fingerprint).
McCalculateMatchScore ==
  /\ ~mc_ret.called
  /\ mc_profile.tag = "dict"
  /\ \E i \in McRecords :
       McReturn("calculate_match_score", i, FALSE,
                calculate_match_score(Get(mc_profile.dict, "resume_embedding"),
                                      Get(mc_jobs.items[i].dict, "job_embedding")))
  /\ UNCHANGED <<mc_profile, mc_jobs>>
  /\ UNCHANGED <<encVars, scVars, rkVars, usVars, gpVars, jbVars, cvVars>>

\* The caller's two records are as analyze_skill_gap left them.
McGapReturn(index, r) ==
  /\ McReturn("analyze_skill_gap", index, r.raised, r.result)
  /\ mc_profile' = r.user_profile
  /\ mc_jobs' = [mc_jobs EXCEPT !.items[index] = r.job_posting]

\* A call analyze_skill_gap(mc_profile, job) on an element of the list.
McAnalyzeSkillGap ==
  /\ ~mc_ret.called
  /\ \E i \in McPositions :
       \E order \in RequiredOrders(mc_jobs.items[i]) :
         McGapReturn(i, analyze_skill_gap(mc_profile, mc_jobs.items[i], order))
  /\ UNCHANGED <<encVars, scVars, rkVars, usVars, gpVars, jbVars, cvVars>>

\* The caller's list is as batch_create_job_embeddings left it.
McBatchReturn(r) ==
  /\ McReturn("batch_create_job_embeddings", 0, r.raised, r.result)
  /\ mc_jobs' = r.job_postings

\* A call batch_create_job_embeddings(mc_jobs).
BatchCreateJobEmbeddings ==
  /\ ~mc_ret.called
  /\ McBatchReturn(batch_create_job_embeddings(mc_jobs))
  /\ UNCHANGED mc_profile
  /\ UNCHANGED <<encVars, scVars, rkVars, usVars, gpVars, jbVars, cvVars>>

NextMatcher ==
  \/ CreateProfileEmbedding
  \/ CreateJobEmbedding
  \/ McCalculateMatchScore
  \/ McAnalyzeSkillGap
  \/ BatchCreateJobEmbeddings

SpecMatcher == InitMatcher /\ [][NextMatcher]_vars

(************************ profile text caller *******************************)
\* A resume text longer than the snippet: a word, blanks up to the end of
\* the snippet and beyond, and a last word.
LongResume ==
  [i \in 1..(ResumeSnippetLen + 3) |->
     IF i = 1 THEN "c" ELSE IF i = ResumeSnippetLen + 3 THEN "L" ELSE " "]

TextProfileWith(skills, experience_years, target_roles, education, resume_text) ==
  PyDict(Field("skills", skills) @@ Field("experience_years", experience_years) @@
         Field("target_roles", target_roles) @@ Field("education", education) @@
         Field("resume_text", resume_text) @@ ("name" :> PyStr(Text_c)))

\* Profiles as the handlers pass them: each field the encoder reads absent,
\* empty or null, or filled.
TextProfiles ==
  {TextProfileWith(s, e, r, d, t) :
     s \in {Absent, PyList(<<>>), PyList(<<PyStr(Text_c)>>), PyList(<<PyStr(Text_c), PyStr(Text_Cl)>>)},
     e \in {Absent, PyFloat(0), PyFloat(20)},
     r \in {Absent, PyList(<<>>), PyList(<<PyStr(Text_l)>>)},
     d \in {Absent, PyNone, EducationOf(PyNone, PyNone), EducationOf(PyStr(Text_c), PyStr(Text_l))},
     t \in {Absent, PyNone, PyStr(<<>>), PyStr(<<"c", " ", "L">>), PyStr(LongResume)}}

InitProfileText ==
  /\ mc_profile \in TextProfiles
  /\ mc_jobs = PyNone
  /\ mc_passed = <<PyNone, PyNone>>
  /\ mc_ret = McNotCalled
  /\ GpIdle
  /\ JbIdle
  /\ EncIdle
  /\ ScIdle
  /\ RkIdle
  /\ UsIdle
  /\ CvIdle

NextProfileText == CreateProfileEmbedding

SpecProfileText == InitProfileText /\ [][NextProfileText]_vars

(**************************** jobs caller ***********************************)
Text_m == <<"m">>

\* A job as a source returns it (job_api_service): requirements is "" or,
\* from jsearch, the months of experience or null; description may be null.
FoundJob(external_id, source, title, description, requirements, skills_required) ==
  PyDict(("external_id" :> PyStr(external_id)) @@ ("source" :> PyStr(source)) @@
         ("title" :> PyStr(title)) @@ ("company" :> PyStr(Text_c)) @@
         ("location" :> PyStr(Text_l)) @@ ("description" :> description) @@
         ("requirements" :> requirements) @@ ("skills_required" :> PyList(skills_required)))

FoundA == FoundJob(Text_c, Text_c, Text_Cl, PyStr(<<"c", " ", "l">>), PyStr(<<>>), <<>>)
FoundB == FoundJob(Text_c, Text_l, Text_c, PyStr(Text_c), PyNone, <<PyStr(Text_c), PyStr(Text_Cl)>>)
FoundMonths == FoundJob(Text_l, Text_l, Text_c, PyStr(Text_c), PyInt(3), <<>>)
FoundNoText == FoundJob(Text_Cl, Text_l, Text_l, PyNone, PyStr(<<>>), <<>>)
FoundAgain == FoundJob(Text_c, Text_c, Text_l, PyStr(Text_l), PyStr(<<>>), <<>>)

\* What the sources return for a search: nothing, new jobs, a job stored
\* under the same external_id and source with another title, and jobs the
\* model rejects at the front, in the middle and at the end of the list.
SearchResults ==
  {<<>>, <<FoundA>>, <<FoundB, FoundA>>, <<FoundAgain, FoundB>>, <<FoundA, FoundMonths, FoundB>>,
   <<FoundNoText, FoundA>>, <<FoundB, FoundMonths>>}

\* A validated ManualJobEntry.
ManualEntry(title, requirements, skills_required, experience_min, experience_max) ==
  ("title" :> PyStr(title)) @@ ("company" :> PyStr(Text_c)) @@ ("location" :> PyStr(Text_l)) @@
  ("description" :> PyStr(Text_c)) @@ ("requirements" :> requirements) @@
  ("skills_required" :> PyList(skills_required)) @@ ("experience_min" :> experience_min) @@
  ("experience_max" :> experience_max)

ManualEntries ==
  {ManualEntry(Text_Cl, PyNone, <<>>, PyNone, PyNone),
   ManualEntry(Text_c, PyStr(Text_l), <<PyStr(Text_c), PyStr(Text_Cl)>>, PyInt(4), PyNone),
   ManualEntry(Text_l, PyNone, <<PyStr(Text_l)>>, PyNone, PyInt(3))}

InitJobs ==
  /\ JbIdle
  /\ GpIdle
  /\ McIdle
  /\ EncIdle
  /\ ScIdle
  /\ RkIdle
  /\ UsIdle
  /\ CvIdle

\* The jobs collection is as search_jobs left it; 500 when it raised.
SearchReturn(found, r) ==
  /\ jobs_collection' = r.collection
  /\ last_response' = [handler |-> "search_jobs", code |-> IF r.raised THEN 500 ELSE 200,
                       found |-> found]

\* POST /jobs/search
SearchJobs ==
  /\ Len(jobs_collection) < MaxStoredJobs
  /\ \E found \in SearchResults : SearchReturn(found, search_jobs(found, jobs_collection))
  /\ UNCHANGED <<applications_collection, encVars, scVars, rkVars, usVars, gpVars, mcVars, cvVars>>

\* POST /jobs/manual
CreateManualJob ==
  /\ Len(jobs_collection) < MaxStoredJobs
  /\ \E job_data \in ManualEntries :
       /\ jobs_collection' = create_manual_job(job_data, jobs_collection)
       /\ last_response' = [handler |-> "create_manual_job", code |-> 201, job_data |-> job_data]
  /\ UNCHANGED <<applications_collection, encVars, scVars, rkVars, usVars, gpVars, mcVars, cvVars>>

NextJobs == SearchJobs \/ CreateManualJob

SpecJobs == InitJobs /\ [][NextJobs]_vars

(************************ interleaved searches caller ***********************)
\* What the sources return to requests made close together: the same job, a
\* list that holds it again, and a list with a job the model rejects.
ConcurrentResults == {<<>>, <<FoundA>>, <<FoundB, FoundA>>, <<FoundA, FoundMonths>>}

InitSearches == InitJobs

\* A request arrives; the sources are asked and the jobs are encoded.
BeginSearch(r) ==
  /\ searches[r].pc = "idle"
  /\ \E found \in ConcurrentResults : searches' = [searches EXCEPT ![r] = SearchBegun(found)]
  /\ UNCHANGED <<jobs_collection, applications_collection, last_response>>
  /\ UNCHANGED <<encVars, scVars, rkVars, usVars, gpVars, mcVars, pending, db_module>>

\* The request's find_one is answered from the collection as it is now.
FindExisting(r) ==
  /\ searches[r].pc = "find"
  /\ searches' = [searches EXCEPT ![r] = SearchFound(@, jobs_collection)]
  /\ UNCHANGED <<jobs_collection, applications_collection, last_response>>
  /\ UNCHANGED <<encVars, scVars, rkVars, usVars, gpVars, mcVars, pending, db_module>>

SearchStep(r, saved) ==
  /\ searches' = [searches EXCEPT ![r] = saved.search]
  /\ jobs_collection' = saved.collection
  /\ last_response' = IF saved.search.pc = "done"
                       THEN [handler |-> "search_jobs", code |-> saved.search.code, request |-> r]
                       ELSE last_response

\* The request goes on after find_one: it skips, inserts or fails.
SaveOrSkip(r) ==
  /\ searches[r].pc = "save"
  /\ SearchStep(r, SearchSaved(searches[r], jobs_collection,
                               JobPosting(searches[r].jobs[searches[r].i])))
  /\ UNCHANGED <<applications_collection, encVars, scVars, rkVars, usVars, gpVars, mcVars>>
  /\ UNCHANGED <<pending, db_module>>

NextSearches == \E r \in SearchIds : BeginSearch(r) \/ FindExisting(r) \/ SaveOrSkip(r)

SpecSearches == InitSearches /\ [][NextSearches]_vars

(************************ applications caller *******************************)
\* Users the users collection may hold for the caller: as registered (no
\* fingerprint), with the fingerprint of the profile, with an empty one, with
\* a short one, and none at all.
AppUsers ==
  {RegisteredUser,
   PyDict(("resume_embedding" :> create_profile_embedding(PyDict(ProfileFields))) @@ ProfileFields),
   ProfileWith(EmptyList), ProfileWith(CachedA), PyNone}

\* A jobs collection: two jobs stored by the handlers, and two documents
\* that came without a fingerprint (a null one, an empty one).
AppJobs ==
  LET stored == search_jobs(<<FoundB>>, create_manual_job(ManualEntry(Text_Cl, PyNone, <<>>, PyNone, PyNone), <<>>)).collection
  IN  stored \o <<PyDict(("_id" :> PyInt(3)) @@ ("job_embedding" :> PyNone) @@ JobFields(3, Text_c)),
                  PyDict(("_id" :> PyInt(4)) @@ ("job_embedding" :> EmptyList) @@ JobFields(4, Text_c))>>

\* job_id of a request: a stored job's, or one no job has.
JobIds == {PyInt(n) : n \in 1..5}

Statuses == {"saved", "applied"}

InitApps ==
  /\ stored_user \in AppUsers
  /\ requests = 0
  /\ last_request = NoRequest
  /\ jobs_collection = AppJobs
  /\ applications_collection = <<>>
  /\ last_response = NoResponse
  /\ GpIdle
  /\ McIdle
  /\ EncIdle
  /\ ScIdle
  /\ RkIdle
  /\ CvIdle

\* The applications collection after the answer: with the application
\* inserted on 201, as it was otherwise.
ApplicationReturn(job_id, status, answer) ==
  /\ applications_collection' =
       IF answer.code = 201 THEN Append(applications_collection, answer.application)
       ELSE applications_collection
  /\ last_response' = [handler |-> "create_application", code |-> answer.code, job_id |-> job_id,
                       status |-> status, before |-> applications_collection]

\* POST /applications
CreateApplication ==
  /\ Len(applications_collection) < MaxApplications
  /\ \E job_id \in JobIds, status \in Statuses :
       ApplicationReturn(job_id, status,
                         create_application(stored_user, FindJob(jobs_collection, job_id),
                                            applications_collection, job_id, status, 1))
  /\ UNCHANGED <<jobs_collection, encVars, scVars, rkVars, usVars, gpVars, mcVars, cvVars>>

NextApps == CreateApplication

SpecApps == InitApps /\ [][NextApps]_vars

(************************* ranked search caller *****************************)
\* The user documents find_one may give search_jobs: as registered, with a
\* fingerprint, with a zero one, and None.
SearchUsers == {PyNone, RegisteredUser, ProfileWith(CachedA), ProfileWith(CachedZero)}

\* What the sources return for a ranked search.
RankedSearches ==
  {<<>>, <<FoundB, FoundA>>, <<FoundAgain, FoundB>>, <<FoundA, FoundMonths, FoundB>>}

InitRanked == InitJobs

RankedReturn(found, user, r) ==
  /\ jobs_collection' = r.collection
  /\ last_response' = [handler |-> "search_jobs", code |-> r.code, found |-> found, user |-> user,
                       saved_jobs |-> r.saved_jobs, jobs |-> r.jobs, count |-> r.count]

\* POST /jobs/search by an authenticated or an anonymous caller.
SearchJobsAs ==
  /\ Len(jobs_collection) < MaxStoredJobs
  /\ \E found \in RankedSearches, user \in SearchUsers :
       RankedReturn(found, user, search_and_rank(found, jobs_collection, user))
  /\ UNCHANGED <<applications_collection, encVars, scVars, rkVars, usVars, gpVars, mcVars, cvVars>>

NextRanked == SearchJobsAs \/ CreateManualJob

SpecRanked == InitRanked /\ [][NextRanked]_vars

(*********************** application dates caller ***************************)
\* datetime.utcnow() at a request.
Times == {1, 2}

\* ApplicationUpdate(...).dict(exclude_unset=True): the fields a request set.
AppUpdates ==
  {[k \in {} |-> PyNone],
   "notes" :> PyStr(Text_c),
   "status" :> "applied",
   "status" :> "saved"}

\* job_id of a request: a job stored with a fingerprint, one stored without.
DatedJobIds == {PyInt(1), PyInt(3)}

InitAppDates ==
  /\ InitApps
  /\ stored_user = RegisteredUser

\* POST /applications at some time.
CreateApplicationAt ==
  /\ Len(applications_collection) < MaxApplications
  /\ \E job_id \in DatedJobIds, status \in Statuses, now \in Times :
       ApplicationReturn(job_id, status,
                         create_application(stored_user, FindJob(jobs_collection, job_id),
                                            applications_collection, job_id, status, now))
  /\ UNCHANGED <<jobs_collection, encVars, scVars, rkVars, usVars, gpVars, mcVars, cvVars>>

UpdateReturn(application_id, app_update, r) ==
  /\ applications_collection' = r.applications
  /\ last_response' = [handler |-> "update_application", code |-> r.code,
                       application_id |-> application_id, app_update |-> app_update,
                       before |-> applications_collection]

\* PUT /applications/{application_id}
UpdateApplication ==
  /\ \E application_id \in 1..(MaxApplications + 1), app_update \in AppUpdates, now \in Times :
       UpdateReturn(application_id, app_update,
                    update_application(applications_collection, application_id,
                                       UpdateData(app_update, now)))
  /\ UNCHANGED <<jobs_collection, encVars, scVars, rkVars, usVars, gpVars, mcVars, cvVars>>

NextAppDates == CreateApplicationAt \/ UpdateApplication

SpecAppDates == InitAppDates /\ [][NextAppDates]_vars

(************************** database caller *********************************)
PingOutcomes == {"ok", "ConnectionFailure", "Exception"}

InitDb == InitJobs

\* A caller awaits get_database().  While a connect_db call is waiting,
\* _database is set, so the call returns at once.
GetDatabase ==
  /\ db_module.calls < MaxDbCalls
  /\ db_module.attempt = 0 \/ db_module._database # "None"
  /\ db_module' = connect_db(db_module, "get_database")
  /\ UNCHANGED <<encVars, scVars, rkVars, usVars, gpVars, mcVars, jbVars, searches, pending>>

\* A caller awaits connect_db().
ConnectDb ==
  /\ db_module.calls < MaxDbCalls
  /\ db_module.attempt = 0 \/ db_module._database # "None"
  /\ db_module' = connect_db(db_module, "connect_db")
  /\ UNCHANGED <<encVars, scVars, rkVars, usVars, gpVars, mcVars, jbVars, searches, pending>>

\* The server answers the ping of the call in progress, or the driver gives up.
Ping ==
  /\ db_module.attempt > 0
  /\ db_module._database # "None"
  /\ \E outcome \in PingOutcomes : db_module' = PingAnswered(db_module, outcome)
  /\ UNCHANGED <<encVars, scVars, rkVars, usVars, gpVars, mcVars, jbVars, searches, pending>>

\* A caller awaits disconnect_db(), no connect_db call being in progress.
DisconnectDb ==
  /\ db_module.calls < MaxDbCalls
  /\ db_module.attempt = 0
  /\ db_module' = disconnect_db(db_module)
  /\ UNCHANGED <<encVars, scVars, rkVars, usVars, gpVars, mcVars, jbVars, searches, pending>>

NextDb == GetDatabase \/ ConnectDb \/ Ping \/ DisconnectDb

SpecDb == InitDb /\ [][NextDb]_vars

(******************************* claims *************************************)
HasToken(text) == \E i \in 1..Len(text) : text[i] \notin Whitespace

\* C7: a fingerprint has exactly 128 components, none negative; they sum to 1
\* when the text holds a token, and all are 0 when it holds none.
SimpleEmbeddingNormalized ==
  enc_last # NoCall =>
    LET e == enc_last.result
    IN  /\ Len(e.num) = 128
        /\ e.den > 0
        /\ \A i \in 1..Len(e.num) : e.num[i] >= 0 /\ e.mag[i] = 0
        /\ HasToken(enc_text) => Sum(e.num) = e.den
        /\ ~HasToken(enc_text) => \A i \in 1..Len(e.num) : e.num[i] = 0

\* C7 witness: a text with a repeated token, whose buckets sum to less than 1
\* before the normalization, has been encoded.
SimpleEmbeddingNormalizedWitness ==
  /\ enc_last # NoCall
  /\ LET words == split(lower(enc_text))
     IN  Len(words) > Cardinality(WordSet(words))

\* C8: two calls of _simple_embedding on the same text return equal vectors,
\* whatever order the words were visited in and whatever calls came between.
EncodingDeterministic ==
  (enc_first # NoCall /\ enc_last # NoCall) => enc_first.result = enc_last.result

\* C8 witness: the same text was encoded twice with different visiting orders
\* and another call in between.
EncodingDeterministicWitness ==
  /\ enc_first # NoCall /\ enc_last # NoCall
  /\ enc_first.order # enc_last.order
  /\ ncalls = 3

IsVector(x) == x.tag = "vec"
IsZeroVector(x) == IsVector(x) /\ \A i \in 1..Len(x.num) : x.num[i] = 0

\* C9: for two vectors of non-negative components, of any lengths, the score
\* lies in [0, 100].
ScoreInRange ==
  (sc_called /\ IsVector(sc_profile) /\ IsVector(sc_job)) =>
    (0 <= sc_score /\ sc_score <= 10000)

\* C9 witness: two non-zero vectors of different lengths scored strictly
\* between 0 and 100.
ScoreInRangeWitness ==
  /\ sc_called /\ IsVector(sc_profile) /\ IsVector(sc_job)
  /\ Len(sc_profile.num) # Len(sc_job.num)
  /\ 0 < sc_score /\ sc_score < 10000

\* C10: the score is exactly 0 whenever either argument is None, an empty list
\* or an all-zero vector, whatever the other argument is.
ZeroVectorScoresZero ==
  (sc_called /\ (\/ ~Truthy(sc_profile) \/ ~Truthy(sc_job)
                 \/ IsZeroVector(sc_profile) \/ IsZeroVector(sc_job))) =>
    sc_score = 0

\* What the ranker was given and what it gave back.
PassedProfile == rk_passed[1]
PassedJobs == rk_passed[2]
Returned == rk_ret.result

\* The elements of the job list passed: a str is visited by character.
Elements ==
  CASE PassedJobs.tag = "list" -> PassedJobs.items
    [] PassedJobs.tag = "str" -> [i \in 1..Len(PassedJobs.chars) |-> PyStr(<<PassedJobs.chars[i]>>)]
    [] OTHER -> <<>>

\* A fault inside the call: no profile record, a job list that cannot be
\* iterated, or an element that is no record.
Fault ==
  \/ PassedProfile.tag # "dict"
  \/ PassedJobs.tag \notin {"list", "str"}
  \/ \E i \in 1..Len(Elements) : Elements[i].tag # "dict"

\* The fingerprint of a record: its cached vector when that is a non-empty
\* list, else the encoding of the record.
HasCached(record, key) ==
  /\ key \in DOMAIN record.dict
  /\ record.dict[key].tag = "vec"
  /\ Len(record.dict[key].num) > 0

ProfileFingerprint ==
  IF HasCached(PassedProfile, "resume_embedding")
  THEN PassedProfile.dict["resume_embedding"]
  ELSE create_profile_embedding(PassedProfile)

JobFingerprint(job) ==
  IF HasCached(job, "job_embedding") THEN job.dict["job_embedding"] ELSE create_job_embedding(job)

\* The score of every element of the job list passed, by input position.
Scores ==
  LET profile_embedding == ProfileFingerprint
  IN  [i \in 1..Len(Elements) |-> calculate_match_score(profile_embedding, JobFingerprint(Elements[i]))]

ScoreOf(entry) == entry.dict["match_score"].hundredths

\* entry is job with the score attached and nothing else changed.
IsScoredCopy(entry, job, score) ==
  /\ entry.tag = "dict"
  /\ DOMAIN entry.dict = DOMAIN job.dict \cup {"match_score"}
  /\ entry.dict["match_score"] = PyScore(score)
  /\ \A key \in DOMAIN job.dict \ {"match_score"} : entry.dict[key] = job.dict[key]

\* The ways of reading the result as distinct positions of the input list.
Positions ==
  {f \in [1..Len(Returned) -> 1..Len(Elements)] :
     \A k, l \in 1..Len(Returned) : k # l => f[k] # f[l]}

\* Returned is the first rk_top_n entries of the score-descending list of the
\* qualifying input jobs.
IsTopOfQualifying ==
  LET scores == Scores
      qualifying == {i \in 1..Len(Elements) : scores[i] >= rk_min_score}
  IN  /\ Len(Returned) = Min(rk_top_n, Cardinality(qualifying))
      /\ \E f \in Positions :
           /\ \A k \in 1..Len(Returned) :
                /\ f[k] \in qualifying
                /\ IsScoredCopy(Returned[k], Elements[f[k]], scores[f[k]])
           /\ \A k \in 1..Len(Returned) : \A l \in (k + 1)..Len(Returned) :
                scores[f[k]] >= scores[f[l]]
           /\ \A i \in qualifying \ {f[k] : k \in 1..Len(Returned)} :
                \A k \in 1..Len(Returned) : scores[i] <= scores[f[k]]

\* C1: for well-formed inputs and top_n >= 0, find_matching_jobs returns the
\* first top_n entries of the score-descending list of the input jobs scoring
\* at least min_score: min(top_n, number of qualifying jobs) entries, none
\* below min_score, and no omitted qualifying job scores above a returned one.
TopQualifyingReturned == rk_ret.called => IsTopOfQualifying

\* A call that had to drop a job below min_score and to cut the list, and
\* whose best job was not the first of the input.
TopQualifyingReturnedWitness ==
  /\ rk_ret.called
  /\ rk_top_n = 1
  /\ Len(Returned) = 1
  /\ Len(Elements) = 3
  /\ Cardinality({i \in 1..3 : Scores[i] >= rk_min_score}) = 2
  /\ ~IsScoredCopy(Returned[1], Elements[1], ScoreOf(Returned[1]))
  /\ \E i \in 1..3 : Scores[i] >= rk_min_score /\ Scores[i] < ScoreOf(Returned[1])

\* C2: the returned list is in non-increasing order of match_score, and
\* returned jobs with equal match_score keep the relative order they had in
\* the input list.
RankedStable ==
  rk_ret.called =>
    /\ \A k \in 1..(Len(Returned) - 1) : ScoreOf(Returned[k]) >= ScoreOf(Returned[k + 1])
    /\ \E f \in Positions :
         /\ \A k \in 1..Len(Returned) :
              IsScoredCopy(Returned[k], Elements[f[k]], ScoreOf(Returned[k]))
         /\ \A k \in 1..Len(Returned) : \A l \in (k + 1)..Len(Returned) :
              ScoreOf(Returned[k]) = ScoreOf(Returned[l]) => f[k] < f[l]

\* Two different jobs with equal scores returned behind a better job that
\* came after both of them in the input.
RankedStableWitness ==
  /\ rk_ret.called
  /\ Len(Returned) = 3
  /\ ScoreOf(Returned[1]) > ScoreOf(Returned[2])
  /\ ScoreOf(Returned[2]) = ScoreOf(Returned[3])
  /\ Returned[2] # Returned[3]
  /\ IsScoredCopy(Returned[1], Elements[3], ScoreOf(Returned[1]))

\* C4: find_matching_jobs leaves the caller's job list, every job record
\* and the profile record as they were passed: match_score goes to copies in
\* the result only, no input job gains match_score or job_embedding, and the
\* profile gains no resume_embedding.
InputsUnchanged ==
  rk_ret.called =>
    /\ rk_jobs = PassedJobs
    /\ rk_profile = PassedProfile
    /\ \A k \in 1..Len(Returned) : "match_score" \in DOMAIN Returned[k].dict

\* A call that encoded the profile and a job on the fly and returned scored
\* entries.
InputsUnchangedWitness ==
  /\ rk_ret.called
  /\ "resume_embedding" \notin DOMAIN PassedProfile.dict
  /\ Len(Returned) >= 2
  /\ \E k \in 1..Len(Returned) :
       /\ "job_embedding" \notin DOMAIN Returned[k].dict
       /\ ScoreOf(Returned[k]) > 0

\* C5: find_matching_jobs never raises, whatever it is given: after a fault
\* anywhere (no profile, a job list that is no list, an element that is no
\* record) it returns the empty list, also when jobs had been scored before
\* the fault; without a fault it returns the ranked list.
NeverRaises ==
  rk_ret.called =>
    /\ ~rk_ret.raised
    /\ IF Fault THEN Returned = <<>> ELSE IsTopOfQualifying

\* A fault at the second element, after the first had been scored and kept.
NeverRaisesWitness ==
  /\ rk_ret.called
  /\ ~rk_ret.raised
  /\ PassedProfile.tag = "dict"
  /\ Len(Elements) = 2
  /\ Elements[1].tag = "dict"
  /\ Elements[2].tag # "dict"
  /\ calculate_match_score(ProfileFingerprint, JobFingerprint(Elements[1])) >= rk_min_score
  /\ Returned = <<>>

\* C6: a non-empty cached resume_embedding or job_embedding is the
\* fingerprint used, an absent or empty one is replaced by the encoding of
\* the record, and a record whose cached vector is all zeros scores 0
\* against everything.
CachedFingerprintsUsed ==
  rk_ret.called /\ ~Fault =>
    LET profile_embedding == ProfileFingerprint
    IN  \A k \in 1..Len(Returned) :
          /\ ScoreOf(Returned[k]) = calculate_match_score(profile_embedding, JobFingerprint(Returned[k]))
          /\ HasCached(PassedProfile, "resume_embedding") /\ IsZeroVector(profile_embedding)
               => ScoreOf(Returned[k]) = 0
          /\ HasCached(Returned[k], "job_embedding") /\ IsZeroVector(Returned[k].dict["job_embedding"])
               => ScoreOf(Returned[k]) = 0

\* C3: with requests handled one at a time, every update_user_profile or
\* upload_resume request that sets skills, experience_years, target_roles or
\* resume_text leaves the stored resume_embedding equal to
\* create_profile_embedding of the user document as stored after the request.
EmbeddingFreshAfterRequest ==
  (last_request.ok /\ last_request.touched) =>
    stored_user.dict["resume_embedding"] = create_profile_embedding(stored_user)

\* A profile update that set one of the fields and replaced an embedding
\* computed by an earlier request, the stored resume text going into it.
EmbeddingFreshAfterRequestWitness ==
  /\ last_request.kind = "update"
  /\ last_request.ok
  /\ last_request.touched
  /\ last_request.embedding_changed
  /\ stored_user.dict["resume_text"] # PyNone
  /\ stored_user.dict["resume_embedding"] = create_profile_embedding(stored_user)

\* C11: every vector of non-negative components with at least one non-zero
\* component scores exactly 100 against itself.
SelfScoreIsHundred ==
  (sc_called /\ IsVector(sc_profile) /\ sc_profile = sc_job /\ ~IsZeroVector(sc_profile)) =>
    sc_score = 10000

\* What the skill-gap caller passed and got back.
GapProfilePassed == gp_passed[1]
GapJobPassed == gp_passed[2]
GapReturned == gp_ret.result

\* The lowercased skill sets of the records passed.
ProfileSkillSet == SkillsOf(GapProfilePassed, "skills").set
RequiredSkillSet == SkillsOf(GapJobPassed, "skills_required").set

ElementsOf(list) == {list[i] : i \in 1..Len(list)}
DuplicateFree(list) == \A i, j \in 1..Len(list) : list[i] = list[j] => i = j

\* C12: matching_skills is the lowercased profile skills intersected with the
\* lowercased required skills and missing_skills the required ones the profile
\* lacks; both lists are duplicate-free, they are disjoint and together they
\* are the lowercased required set, so that letter case and repeated entries
\* of the input lists do not show in the result.
SkillSetsSplit ==
  gp_ret.called =>
    /\ ElementsOf(GapReturned.matching_skills) = ProfileSkillSet \cap RequiredSkillSet
    /\ ElementsOf(GapReturned.missing_skills) = RequiredSkillSet \ ProfileSkillSet
    /\ DuplicateFree(GapReturned.matching_skills)
    /\ DuplicateFree(GapReturned.missing_skills)
    /\ ElementsOf(GapReturned.matching_skills) \cap ElementsOf(GapReturned.missing_skills) = {}
    /\ ElementsOf(GapReturned.matching_skills) \cup ElementsOf(GapReturned.missing_skills)
         = RequiredSkillSet

\* A call with a repeated profile skill and skills in upper and mixed case:
\* one skill matches and two are missing.
SkillSetsSplitWitness ==
  /\ gp_ret.called
  /\ Get(GapProfilePassed.dict, "skills") = PyList(<<PyStr(<<"C">>), PyStr(<<"C">>)>>)
  /\ Get(GapJobPassed.dict, "skills_required") = PyList(<<PyStr(<<"L">>), PyStr(<<"C", "l">>), PyStr(<<"c">>)>>)
  /\ GapReturned.matching_skills # <<>>
  /\ Len(GapReturned.missing_skills) = 2

Abs(n) == IF n < 0 THEN -n ELSE n

MinimumTenths ==
  IF IsNumber(Get(GapJobPassed.dict, "experience_min"))
  THEN Tenths(Get(GapJobPassed.dict, "experience_min")) ELSE 0
YearsTenths ==
  IF IsNumber(Get(GapProfilePassed.dict, "experience_years"))
  THEN Tenths(Get(GapProfilePassed.dict, "experience_years")) ELSE 0

\* C14: experience_gap_years is max(0, experience_min - experience_years),
\* with an absent, null or zero experience_min counting as 0, and is never
\* negative.
ExperienceGapClamped ==
  gp_ret.called =>
    /\ GapReturned.experience_gap_years = Max(0, MinimumTenths - YearsTenths)
    /\ GapReturned.experience_gap_years >= 0

\* A call with 1 year against a minimum of 4: a gap of 3 years.
ExperienceGapClampedWitness ==
  /\ gp_ret.called
  /\ YearsTenths = 10
  /\ MinimumTenths = 40
  /\ GapReturned.experience_gap_years = 30

\* A skill list the analyzer cannot lowercase: present and neither a list of
\* strings nor a string.
BadSkills(record, key) == key \in DOMAIN record.dict /\ ~Joinable(record.dict[key])

\* An experience the analyzer cannot compare: a truthy experience_min that
\* is no number, or one set against an experience_years that is no number.
BadExperience ==
  /\ Truthy(Get(GapJobPassed.dict, "experience_min"))
  /\ \/ ~IsNumber(GapJobPassed.dict["experience_min"])
     \/ ~IsNumber(GetDefault(GapProfilePassed.dict, "experience_years", PyInt(0)))

\* An internal fault of the call made.
GapFault ==
  \/ GapProfilePassed.tag # "dict"
  \/ GapJobPassed.tag # "dict"
  \/ BadSkills(GapProfilePassed, "skills")
  \/ BadSkills(GapJobPassed, "skills_required")
  \/ BadExperience

\* C15: analyze_skill_gap never raises, and on an internal fault returns the
\* fallback: no matching and no missing skills, match_percentage 0,
\* experience_gap_years 0 and exactly one recommendation.
GapNeverRaises ==
  gp_ret.called =>
    /\ ~gp_ret.raised
    /\ GapFault =>
         /\ GapReturned.matching_skills = <<>>
         /\ GapReturned.missing_skills = <<>>
         /\ GapReturned.match_percentage = 0
         /\ GapReturned.experience_gap_years = 0
         /\ Len(GapReturned.recommendations) = 1

\* A call with a readable skill list on both sides, a null experience_years
\* and a positive experience_min, answered by the fallback.
GapNeverRaisesWitness ==
  /\ gp_ret.called
  /\ GapProfilePassed = GapProfileWith(PyList(<<PyStr(Text_c)>>), PyNone)
  /\ GapJobPassed = GapJobWith(PyList(<<PyStr(Text_c), PyStr(Text_l)>>), PyInt(4))
  /\ GapReturned = GapFallback

\* What the matcher caller passed and got back.
McProfilePassed == mc_passed[1]
McJobsPassed == mc_passed[2]
McEncoderCalled == mc_ret.called /\ mc_ret.op \in {"create_profile_embedding", "create_job_embedding"}

\* A field an encoder cannot join: truthy and neither a list of strings nor
\* a string.  A field it cannot take a snippet of: truthy and no string.
Unjoinable(record, key) == Truthy(Get(record.dict, key)) /\ ~Joinable(record.dict[key])
Unsliceable(record, key) == Truthy(Get(record.dict, key)) /\ record.dict[key].tag # "str"

\* Building the text of the record passed to the encoder called faults.
TextFault ==
  IF mc_ret.op = "create_profile_embedding"
  THEN \/ McProfilePassed.tag # "dict"
       \/ Unjoinable(McProfilePassed, "skills")
       \/ Unjoinable(McProfilePassed, "target_roles")
       \/ Unsliceable(McProfilePassed, "resume_text")
  ELSE \/ McJobsPassed.items[mc_ret.index].tag # "dict"
       \/ Unjoinable(McJobsPassed.items[mc_ret.index], "skills_required")
       \/ Unsliceable(McJobsPassed.items[mc_ret.index], "description")
       \/ Unsliceable(McJobsPassed.items[mc_ret.index], "requirements")

\* C16: create_profile_embedding and create_job_embedding never raise and
\* return a vector of length 128, the all-zero one when building the text
\* of the record faults.
EncodersNeverRaise ==
  McEncoderCalled =>
    /\ ~mc_ret.raised
    /\ mc_ret.result.tag = "vec"
    /\ Len(mc_ret.result.num) = EmbeddingDim
    /\ TextFault => \A i \in 1..EmbeddingDim : mc_ret.result.num[i] = 0

\* A call of the profile encoder on a profile whose resume_text is a number,
\* answered by the zero vector.
EncodersNeverRaiseWitness ==
  /\ McEncoderCalled
  /\ mc_ret.op = "create_profile_embedding"
  /\ McProfilePassed = PyDict(("resume_text" :> PyInt(3)) @@ ProfileFields)
  /\ mc_ret.result = PyVec(ZeroEmbedding, 1)

\* An element of the caller's list after a call is the element before it,
\* but for a job_embedding written where none, a null or an empty one was.
SameButNewFingerprint(before, after) ==
  IF before.tag # "dict" THEN after = before
  ELSE /\ after.tag = "dict"
       /\ DOMAIN after.dict \ {"job_embedding"} = DOMAIN before.dict \ {"job_embedding"}
       /\ \A k \in DOMAIN before.dict \ {"job_embedding"} : after.dict[k] = before.dict[k]
       /\ Truthy(Get(before.dict, "job_embedding")) => after = before

\* C18: the two encoders, calculate_match_score and analyze_skill_gap leave
\* the caller's profile and job list as they were; batch_create_job_embeddings
\* returns the caller's list with the same elements in the same order and
\* number, having written nothing but job_embedding, and only on records
\* whose job_embedding was absent, null or empty.
OnlyFingerprintsWritten ==
  mc_ret.called =>
    /\ mc_profile = McProfilePassed
    /\ mc_ret.op # "batch_create_job_embeddings" => mc_jobs = McJobsPassed
    /\ mc_ret.op = "batch_create_job_embeddings" =>
         /\ mc_ret.result = mc_jobs
         /\ mc_jobs.tag = McJobsPassed.tag
         /\ mc_jobs.tag # "list" => mc_jobs = McJobsPassed
         /\ mc_jobs.tag = "list" =>
              /\ Len(mc_jobs.items) = Len(McJobsPassed.items)
              /\ \A i \in 1..Len(mc_jobs.items) :
                   SameButNewFingerprint(McJobsPassed.items[i], mc_jobs.items[i])

\* A batch call on a job with a cached fingerprint followed by one without:
\* the first is as it was, the second carries its encoding.
OnlyFingerprintsWrittenWitness ==
  /\ mc_ret.called
  /\ mc_ret.op = "batch_create_job_embeddings"
  /\ McJobsPassed = PyList(<<JobWith(4, Text_c, CachedB), PyDict(JobFields(1, Text_Cl))>>)
  /\ mc_jobs.items[1] = JobWith(4, Text_c, CachedB)
  /\ mc_jobs.items[2] = JobWith(1, Text_Cl, create_job_embedding(PyDict(JobFields(1, Text_Cl))))

\* The stored jobs the handlers inserted, by the handler's source mark.
ManualStored(i) == Get(jobs_collection[i].dict, "source") = PyStr(Text_m)
StoredJobs == 1..Len(jobs_collection)

AppAnswered == last_response.handler = "create_application"
AppJob == FindJob(jobs_collection, last_response.job_id)
AppNew == Truthy(AppJob) /\ ~AlreadyApplied(last_response.before, last_response.job_id)
AppStored == applications_collection[Len(applications_collection)]

\* The fingerprint cached on a document; None when there is no document.
CachedOn(document, key) == IF document.tag = "dict" THEN Get(document.dict, key) ELSE PyNone
AppScorable ==
  Truthy(CachedOn(stored_user, "resume_embedding")) /\ Truthy(CachedOn(AppJob, "job_embedding"))

TokensInBucket(idx) ==
  {w \in WordSet(split(lower(enc_text))) : md5_low16[w] % 128 = idx}

\* C19: before normalization the bucket at hash(word) mod 128 holds
\* (number of distinct lowercased tokens hashing to it) / (total number of
\* tokens, counting repeats); distinct tokens that collide add up.
BucketsCountDistinctTokens ==
  enc_last # NoCall =>
    /\ Len(enc_last.buckets) = 128
    /\ HasToken(enc_text) => enc_last.unit = Len(split(lower(enc_text)))
    /\ \A idx \in 0..127 : enc_last.buckets[idx + 1] = Cardinality(TokensInBucket(idx))

\* C19 witness: a text whose two distinct tokens hash to one bucket has been
\* encoded.
BucketsCountDistinctTokensWitness ==
  /\ enc_last # NoCall
  /\ \E idx \in 0..127 : Cardinality(TokensInBucket(idx)) = 2

\* The messages a result's own fields call for.
LearnCalledFor(missing) ==
  IF missing # <<>>
  THEN <<Message("Consider learning: {}",
                 Join(<<",", " ">>, SubSeq(missing, 1, Min(5, Len(missing)))))>>
  ELSE <<>>

GenericCalledFor(matching, missing) ==
  IF Len(matching) + Len(missing) > 0 /\
     100 * Len(matching) < 70 * (Len(matching) + Len(missing))
  THEN <<Message("Build more experience in the required skill areas", <<>>),
         Message("Consider taking online courses or certifications", <<>>)>>
  ELSE <<>>

ExperienceCalledFor(gap) ==
  IF gap > 0
  THEN <<Message("Gain {} more years of relevant experience", FormatTenths(gap))>>
  ELSE <<>>

\* C21: the recommendations of a result from the try body are, in this order
\* and with nothing else, one 'Consider learning' message naming the first
\* min(5, |missing_skills|) missing skills iff missing_skills is non-empty,
\* the two generic suggestions iff the match percentage is below 70, and one
\* message with the experience gap iff experience_gap_years > 0.
RecommendationsInOrder ==
  gp_ret.called =>
    GapReturned.recommendations =
      LearnCalledFor(GapReturned.missing_skills) \o
      GenericCalledFor(GapReturned.matching_skills, GapReturned.missing_skills) \o
      ExperienceCalledFor(GapReturned.experience_gap_years)

\* C21 witness: six skills are missing, five of them are named, and the
\* generic suggestions and the experience message follow.
RecommendationsInOrderWitness ==
  /\ gp_ret.called
  /\ Len(GapReturned.missing_skills) = 6
  /\ GapReturned.experience_gap_years > 0
  /\ Len(GapReturned.recommendations) = 4

\* The fields of the profile passed to the encoder; None for an absent one.
ProfileField(key) == Get(McProfilePassed.dict, key)
FieldIsList(key) == ProfileField(key).tag = "list" /\ ProfileField(key).items # <<>>

\* The segments the claim names, each present or not by the claim's test.
SkillsSegment ==
  IF FieldIsList("skills")
  THEN <<<<"S", "k", "i", "l", "l", "s", ":", " ">> \o
         Join(<<",", " ">>, [i \in 1..Len(ProfileField("skills").items) |-> ProfileField("skills").items[i].chars])>>
  ELSE <<>>

ExperienceSegment ==
  IF ProfileField("experience_years").tag = "float" /\ ProfileField("experience_years").tenths # 0
  THEN <<<<"E", "x", "p", "e", "r", "i", "e", "n", "c", "e", ":", " ">> \o
         Format(ProfileField("experience_years")) \o <<" ", "y", "e", "a", "r", "s">>>>
  ELSE <<>>

RolesSegment ==
  IF FieldIsList("target_roles")
  THEN <<<<"T", "a", "r", "g", "e", "t", " ", "r", "o", "l", "e", "s", ":", " ">> \o
         Join(<<",", " ">>, [i \in 1..Len(ProfileField("target_roles").items) |-> ProfileField("target_roles").items[i].chars])>>
  ELSE <<>>

EducationSegment ==
  IF ProfileField("education").tag = "dict"
  THEN <<<<"E", "d", "u", "c", "a", "t", "i", "o", "n", ":", " ">> \o
         Format(ProfileField("education").dict["degree"]) \o <<" ", "i", "n", " ">> \o
         Format(ProfileField("education").dict["field"])>>
  ELSE <<>>

SnippetSegment ==
  IF ProfileField("resume_text").tag = "str" /\ ProfileField("resume_text").chars # <<>>
  THEN <<SubSeq(ProfileField("resume_text").chars, 1, Min(500, Len(ProfileField("resume_text").chars)))>>
  ELSE <<>>

ProfileTextEncoded == mc_ret.called /\ mc_ret.op = "create_profile_embedding"

\* C22: the text create_profile_embedding encodes is the ' | '-join of the
\* segments Skills, Experience, Target roles, Education and resume snippet
\* (first 500 characters), in this order; a segment is there iff its field is
\* present (non-empty list, non-zero experience, an education record,
\* non-empty text), and an absent field is no error.
ProfileTextSegments ==
  ProfileTextEncoded =>
    /\ ~mc_ret.raised
    /\ mc_ret.text = Join(<<" ", "|", " ">>, SkillsSegment \o ExperienceSegment \o RolesSegment \o
                                            EducationSegment \o SnippetSegment)
    /\ mc_ret.result = _simple_embedding(mc_ret.text)

\* C22 witness: a profile with all five fields filled and a resume text
\* longer than the snippet has been encoded.
ProfileTextSegmentsWitness ==
  /\ ProfileTextEncoded
  /\ Len(SkillsSegment \o ExperienceSegment \o RolesSegment \o EducationSegment \o SnippetSegment) = 5
  /\ Len(ProfileField("resume_text").chars) > 500

\* vector[:m]
TruncatedTo(vector, m) ==
  [vector EXCEPT !.num = SubSeq(@, 1, m), !.mag = SubSeq(@, 1, m)]

ShorterLen == Min(Len(sc_profile.num), Len(sc_job.num))
LongerVector == IF Len(sc_profile.num) > Len(sc_job.num) THEN sc_profile ELSE sc_job
UnequalLengths ==
  sc_called /\ IsVector(sc_profile) /\ IsVector(sc_job) /\ Len(sc_profile.num) # Len(sc_job.num)

\* The score of two vectors of unequal lengths is the score of both cut to
\* the shorter length.
ScoreOfTruncated ==
  UnequalLengths =>
    sc_score = calculate_match_score(TruncatedTo(sc_profile, ShorterLen),
                                     TruncatedTo(sc_job, ShorterLen))

\* C23: with vectors of unequal lengths the score is that of both vectors cut
\* to the shorter length, and a longer vector whose components up to that
\* length are all zero scores 0.
TruncatedToShorter ==
  UnequalLengths =>
    /\ sc_score = calculate_match_score(TruncatedTo(sc_profile, ShorterLen),
                                        TruncatedTo(sc_job, ShorterLen))
    /\ IsZeroVector(TruncatedTo(LongerVector, ShorterLen)) => sc_score = 0

\* The (external_id, source) pair of a stored job.
PairOf(i) ==
  <<Get(jobs_collection[i].dict, "external_id"), Get(jobs_collection[i].dict, "source")>>

\* C24: after any number of search_jobs requests, interleaved ones included,
\* the jobs collection holds at most one document per (external_id, source)
\* pair.
OneJobPerPair ==
  \A i, j \in StoredJobs : PairOf(i) = PairOf(j) => i = j

\* The applications stored now and before the latest request.
StoredApplications == 1..Len(applications_collection)
UpdateAnswered == last_response.handler = "update_application" /\ last_response.code = 200

\* C25: every stored application whose status is 'applied' has a non-null
\* applied_date, after any sequence of create_application and
\* update_application requests; an update that leaves the status out does not
\* change applied_date.
AppliedHasDate ==
  /\ \A i \in StoredApplications :
       applications_collection[i].status = "applied" =>
         applications_collection[i].applied_date # PyNone
  /\ (UpdateAnswered /\ "status" \notin DOMAIN last_response.app_update) =>
       \A i \in StoredApplications :
         applications_collection[i].applied_date = last_response.before[i].applied_date

\* C25 witness: an application created as saved was set to applied by an
\* update, which gave it its date.
AppliedHasDateWitness ==
  /\ UpdateAnswered
  /\ LET i == last_response.application_id
     IN  /\ last_response.before[i].status = "saved"
         /\ last_response.before[i].applied_date = PyNone
         /\ applications_collection[i].status = "applied"
         /\ applications_collection[i].applied_date = PyInt(2)

\* Every profile request has answered, and each of them wrote a fingerprint
\* it had computed.
AllWroteFingerprint ==
  \A r \in PendingIds :
    /\ pending[r].pc = "done"
    /\ "resume_embedding" \in DOMAIN pending[r].update_data.dict

\* C26: when update_user_profile / upload_resume requests for the same user
\* interleave at their database steps, then once all of them have completed
\* the stored resume_embedding equals create_profile_embedding of the finally
\* stored record.
FingerprintFreshAfterRace ==
  AllWroteFingerprint =>
    stored_user.dict["resume_embedding"] = create_profile_embedding(stored_user)

\* C27: with register_user, update_user_profile and upload_resume requests run
\* one at a time, a stored non-null resume_embedding equals
\* create_profile_embedding of the user's currently stored record, also after
\* an update that changes only education.
StoredFingerprintCurrent ==
  stored_user.dict["resume_embedding"] # PyNone =>
    stored_user.dict["resume_embedding"] = create_profile_embedding(stored_user)

\* The text with the case of every letter changed.
SwapCaseOf == ("c" :> "C") @@ ("C" :> "c") @@ ("l" :> "L") @@ ("L" :> "l")
SwapCase(text) ==
  [i \in 1..Len(text) |-> IF text[i] \in DOMAIN SwapCaseOf THEN SwapCaseOf[text[i]] ELSE text[i]]

\* The distinct lowercased tokens of a text, and how many of them hash to
\* bucket b.
DistinctTokens(text) == WordSet(split(lower(text)))
DistinctInBucket(text, b) ==
  Cardinality({w \in DistinctTokens(text) : md5_low16[w] % EmbeddingDim = b})

SearchAnswered ==
  /\ last_response.handler = "search_jobs"
  /\ last_response.code = 200
  /\ "saved_jobs" \in DOMAIN last_response

\* The entry without its match_score.
Unscored(entry) == PyDict([k \in DOMAIN entry.dict \ {"match_score"} |-> entry.dict[k]])

\* The ways of reading the jobs of the answer as positions of saved_jobs,
\* each position once.
AnswerPositions ==
  {f \in [1..Len(last_response.jobs) -> 1..Len(last_response.saved_jobs)] :
     \A k, l \in 1..Len(last_response.jobs) : k # l => f[k] # f[l]}

\* C29: ranking with min_score = 0 and top_n = 50 drops no job: the jobs
\* search_jobs returns to an authenticated user are the saved jobs, each once
\* and with a match_score attached, in some order, so the set of jobs and the
\* count are those an anonymous caller gets.
RankingDropsNoJob ==
  SearchAnswered =>
    /\ last_response.count = Len(last_response.saved_jobs)
    /\ Len(last_response.jobs) = last_response.count
    /\ \E f \in AnswerPositions :
         \A k \in 1..Len(last_response.jobs) :
           Unscored(last_response.jobs[k]) = ServeId(last_response.saved_jobs[f[k]])
    /\ last_response.user # PyNone =>
         \A k \in 1..Len(last_response.jobs) : "match_score" \in DOMAIN last_response.jobs[k].dict

\* An authenticated search whose ranking moved the first saved job back and
\* kept a job scoring below find_matching_jobs's default min_score.
RankingDropsNoJobWitness ==
  /\ SearchAnswered
  /\ last_response.user # PyNone
  /\ last_response.count >= 2
  /\ Unscored(last_response.jobs[1]) # ServeId(last_response.saved_jobs[1])
  /\ \E k \in 1..Len(last_response.jobs) :
       last_response.jobs[k].dict["match_score"].hundredths < DefaultMinScore

\* C30: get_database / connect_db hand out a database handle only if a ping
\* on it has succeeded; connect_db makes at most 3 attempts, and after a
\* failed connect the module caches no database.
HandleOnlyAfterPing ==
  /\ db_module.handed # "None" => db_module.handed_pinged
  /\ db_module.attempt <= MaxRetries
  /\ (db_module.answer = "raised" /\ db_module.attempt = 0) => db_module._database = "None"

====
